---- MODULE Spec2Model ----
(***************************************************************************)
(* Inventory reconciliation: the field normalizers, the schema registry,   *)
(* the row parser, the key strategies and the reconciliation engine of     *)
(* inventory_parser, as state machines over bounded inputs.                *)
(*                                                                         *)
(* Text is a sequence of code points (so that trimming, case folding and   *)
(* Python's code-point string order are computed, not assumed); the model's *)
(* alphabet is ASCII.  An optional value (Python's `x | None`) is a        *)
(* sequence of length 0 (None) or 1 (the value).                           *)
(***************************************************************************)
EXTENDS Integers, Sequences, FiniteSets, TLC

VARIABLES
    \* ---- reconciliation engine (SpecRecon)
    rows1,      \* snapshot_1_rows: the first row list handed to the engine
    rows2,      \* snapshot_2_rows
    pc,         \* "build" while the row lists are assembled, then the call made
    key,        \* the `key` argument of the call
    totals1,    \* snapshot_1_totals of reconcile_rows
    totals2,    \* snapshot_2_totals of reconcile_rows
    summary,    \* the ReconciliationSummary returned
    dups,       \* the list[DuplicateMergeInfo] returned
    raised,     \* the exception a call ended with ("" when it returned)
    \* ---- field normalizers and row parser (SpecNorm)
    normCall,   \* the normalizer call being made: [fn, value, field]
    normResult, \* what it returned or raised: [exc, value, issues]
    rowCall,    \* the row parse_snapshot is at: [raw_row, headers, line_number, schema]
    rowResult,  \* what _to_row returned or raised for it: [exc, row]
    \* ---- schema detection (SpecSchema)
    schemas,    \* _SCHEMAS, in its order of registration
    headers,    \* the header list handed to detect_schema (None, or a list)
    edits,      \* how many edits the header list has had
    detected,   \* what detect_schema returned or raised: [exc, message, schema]
    \* ---- snapshot parser (SpecParse)
    call,        \* the function called: parse_snapshot or parse_both_snapshots
    pending,     \* the files still to be parsed, each [path, lines]
    path,        \* csv_path: the file parse_snapshot is reading
    handle,      \* the lines of that file, each the list of its cells
    line_num,    \* reader.line_num: how many lines the csv reader has read
    lineNumber,  \* line_number: the number enumerate(reader, start=2) gives next
    matched,     \* schema: the schema detect_schema returned (None before)
    records,     \* rows: the records parse_snapshot has made
    file_issues, \* parse_snapshot's file_issues
    rowLine,     \* for each record, the line of the file it came from
    issueLine,   \* for each entry of file_issues, the line of the file it is about
    results,     \* the ParseResults of the files parsed so far
    returned,    \* what the call returned (None before, and when it raised)
    parseRaised, \* the exception the call ended with: [exc, message]
    \* ---- key strategies (SpecKeys)
    keyed,       \* the keys the strategy `key` gave the rows of rows1, row by row
    \* ---- interleaved calls of the engine (SpecConc)
    calls,       \* for each running call: [op, key, at, fn, i, result, exc]; in SpecFrame the calls made so far: [op, key, result, exc]
    frames       \* for each call frame, the locals the call accumulates into

reconVars == <<rows1, rows2, pc, key, totals1, totals2, summary, dups, raised>>
normVars == <<normCall, normResult, rowCall, rowResult>>
schemaVars == <<schemas, headers, edits, detected>>
fileVars == <<call, pending, path, handle, line_num, lineNumber, matched>>
parseVars == <<fileVars, records, file_issues, rowLine, issueLine, results, returned, parseRaised>>
engineVars == <<keyed, calls, frames>>
vars == <<reconVars, normVars, schemaVars, parseVars, engineVars>>

----------------------------------------------------------------------------
\* Optional values

None == <<>>
Some(v) == <<v>>
IsNone(o) == o = <<>>
Val(o) == o[1]

\* Bounds of the model
MaxRows == 2    \* rows in a row list handed to the engine
MaxLen == 3     \* characters in a generated field text
MaxEdits == 2   \* edits made to a header row before detect_schema sees it
MaxLines == 3   \* lines after the header line in a file
MaxCalls == 2   \* calls of the engine on one parse result

\* The values the variables of a part of the program hold while another part
\* is the one being run
NoCall == [fn |-> "", value |-> None, field |-> ""]
NoResult == [exc |-> "", value |-> None, issues |-> <<>>]
NoRowCall == [raw_row |-> <<>>, headers |-> <<>>, line_number |-> 0, schema |-> ""]
NoRow == [exc |-> "", row |-> None]
NoDetection == [exc |-> "", message |-> <<>>, schema |-> None]
NoException == [exc |-> "", message |-> <<>>]

NormIdle ==
    /\ normCall = NoCall
    /\ normResult = NoResult
    /\ rowCall = NoRowCall
    /\ rowResult = NoRow

SchemaIdle ==
    /\ schemas = <<>>
    /\ headers = None
    /\ edits = 0
    /\ detected = NoDetection

\* The locals of parse_snapshot before it opens its file
NotOpen ==
    /\ path = ""
    /\ handle = <<>>
    /\ line_num = 0
    /\ lineNumber = 0
    /\ matched = None
    /\ records = <<>>
    /\ file_issues = <<>>
    /\ rowLine = <<>>
    /\ issueLine = <<>>

ParseIdle ==
    /\ call = ""
    /\ pending = <<>>
    /\ NotOpen
    /\ results = <<>>
    /\ returned = None
    /\ parseRaised = NoException

ConcIdle ==
    /\ calls = <<>>
    /\ frames = <<>>

EngineIdle ==
    /\ keyed = <<>>
    /\ ConcIdle

----------------------------------------------------------------------------
\* Text (str) operations, on sequences of code points

\* str.isspace() for one ASCII character: \t \n \v \f \r, FS GS RS US, space
IsSpace(c) == c \in {9, 10, 11, 12, 13, 28, 29, 30, 31, 32}

RECURSIVE LStrip(_)
LStrip(s) == IF s # <<>> /\ IsSpace(Head(s)) THEN LStrip(Tail(s)) ELSE s

RECURSIVE RStrip(_)
RStrip(s) ==
    IF s # <<>> /\ IsSpace(s[Len(s)]) THEN RStrip(SubSeq(s, 1, Len(s) - 1)) ELSE s

\* A strip that removes one whitespace character at most from each end
Strip_OneEach(s) ==
    SubSeq(s, IF s # <<>> /\ IsSpace(s[1]) THEN 2 ELSE 1,
              IF Len(s) > 1 /\ IsSpace(s[Len(s)]) THEN Len(s) - 1 ELSE Len(s))

\* A strip that leaves the whitespace at the end of the text
Strip_LeftOnly(s) == LStrip(s)

\* str.strip()
Strip(s) == RStrip(LStrip(s))

\* str.lower() / str.casefold() on ASCII letters
LowerChar(c) == IF c >= 65 /\ c <= 90 THEN c + 32 ELSE c
Lower(s) == [i \in 1..Len(s) |-> LowerChar(s[i])]
CaseFold(s) == Lower(s)

\* str.upper() on ASCII letters
UpperChar(c) == IF c >= 97 /\ c <= 122 THEN c - 32 ELSE c
Upper(s) == [i \in 1..Len(s) |-> UpperChar(s[i])]

\* Python's str order: by code point, a proper prefix first
RECURSIVE StrLess(_, _)
StrLess(a, b) ==
    IF b = <<>> THEN FALSE
    ELSE IF a = <<>> THEN TRUE
    ELSE IF Head(a) # Head(b) THEN Head(a) < Head(b)
    ELSE StrLess(Tail(a), Tail(b))

RECURSIVE Sorted_Reversed(_)
Sorted_Reversed(S) ==
    IF S = {} THEN <<>>
    ELSE LET m == CHOOSE x \in S : \A y \in S \ {x} : StrLess(y, x)
         IN  <<m>> \o Sorted_Reversed(S \ {m})

\* sorted(S) for a set of str: the ascending list of its elements
RECURSIVE Sorted(_)
Sorted(S) ==
    IF S = {} THEN <<>>
    ELSE LET m == CHOOSE x \in S : \A y \in S \ {x} : StrLess(x, y)
         IN  <<m>> \o Sorted(S \ {m})

Range(f) == {f[i] : i \in DOMAIN f}

----------------------------------------------------------------------------
\* Key strategies (reconcile.py)

key_by_sku(row) == row.sku

key_by_name(row) ==
    IF IsNone(row.name) THEN None
    ELSE LET normalized == CaseFold(Strip(Val(row.name)))
         IN  IF normalized = <<>> THEN None ELSE Some(normalized)

\* A _normalize_location that trims the location and keeps its case
_normalize_location_KeepsCase(location) ==
    IF IsNone(location) THEN None
    ELSE LET normalized == Strip(Val(location))
         IN  IF normalized = <<>> THEN None ELSE Some(normalized)

_normalize_location(location) ==
    IF IsNone(location) THEN None
    ELSE LET normalized == CaseFold(Strip(Val(location)))
         IN  IF normalized = <<>> THEN None ELSE Some(normalized)

\* f"{sku}|{location}"
key_by_sku_warehouse(row) ==
    LET sku == row.sku
        location == _normalize_location(row.location)
    IN  IF IsNone(sku) \/ IsNone(location) THEN None
        ELSE Some(Val(sku) \o <<124>> \o Val(location))

key_by_name_warehouse(row) ==
    LET name == key_by_name(row)
        location == _normalize_location(row.location)
    IN  IF IsNone(name) \/ IsNone(location) THEN None
        ELSE Some(Val(name) \o <<124>> \o Val(location))

\* A caller-supplied strategy, the one of the repository's tests:
\* lambda row: (row.name or "").casefold()
custom_name_casefold(row) ==
    Some(CaseFold(IF IsNone(row.name) THEN <<>> ELSE Val(row.name)))

\* The `key` arguments of the model: the four strategy names, a name that is
\* not a strategy, and a callable.
BuiltinKeys == {"sku", "name", "sku_warehouse", "name_warehouse"}
CallableKeys == {"custom_name_casefold"}
UnknownKeys == {"category"}
KeyArgs == BuiltinKeys \cup CallableKeys \cup UnknownKeys

\* A resolve_key_fn that falls back to the default strategy of the callers'
\* signature for a name it does not know
resolve_key_fn_DefaultsToSkuWarehouse(k) ==
    IF k \in CallableKeys THEN [fn |-> k, exc |-> ""]
    ELSE IF k = "sku" THEN [fn |-> "key_by_sku", exc |-> ""]
    ELSE IF k = "name" THEN [fn |-> "key_by_name", exc |-> ""]
    ELSE IF k = "name_warehouse" THEN [fn |-> "key_by_name_warehouse", exc |-> ""]
    ELSE [fn |-> "key_by_sku_warehouse", exc |-> ""]

\* resolve_key_fn: the name of the function it returns, or the error it raises
resolve_key_fn(k) ==
    IF k \in CallableKeys THEN [fn |-> k, exc |-> ""]
    ELSE IF k = "sku" THEN [fn |-> "key_by_sku", exc |-> ""]
    ELSE IF k = "name" THEN [fn |-> "key_by_name", exc |-> ""]
    ELSE IF k = "sku_warehouse" THEN [fn |-> "key_by_sku_warehouse", exc |-> ""]
    ELSE IF k = "name_warehouse" THEN [fn |-> "key_by_name_warehouse", exc |-> ""]
    ELSE [fn |-> "", exc |-> "ValueError: Unsupported reconciliation key"]

\* key_fn(row): the call of a resolved key function
ApplyKeyFn(fn, row) ==
    CASE fn = "key_by_sku" -> key_by_sku(row)
      [] fn = "key_by_name" -> key_by_name(row)
      [] fn = "key_by_sku_warehouse" -> key_by_sku_warehouse(row)
      [] fn = "key_by_name_warehouse" -> key_by_name_warehouse(row)
      [] fn = "custom_name_casefold" -> custom_name_casefold(row)

----------------------------------------------------------------------------
\* Reconciliation engine (reconcile.py)

\* `not key`: None and the empty string are both falsy
Falsy(k) == IsNone(k) \/ Val(k) = <<>>

AddTo_Max(totals, k, quantity) ==
    IF k \in DOMAIN totals
    THEN [totals EXCEPT ![k] = IF quantity > @ THEN quantity ELSE @]
    ELSE [x \in DOMAIN totals \cup {k} |-> IF x = k THEN quantity ELSE totals[x]]

AddTo_LastWins(totals, k, quantity) ==
    [x \in DOMAIN totals \cup {k} |-> IF x = k THEN quantity ELSE totals[x]]

\* totals[key] += quantity, on a defaultdict(int)
AddTo(totals, k, quantity) ==
    IF k \in DOMAIN totals
    THEN [totals EXCEPT ![k] = @ + quantity]
    ELSE [x \in DOMAIN totals \cup {k} |-> IF x = k THEN quantity ELSE totals[x]]

\* The loop of aggregate_quantities from row i on
RECURSIVE AggregateFrom(_, _, _, _)
AggregateFrom(rows, fn, i, totals) ==
    IF i > Len(rows) THEN totals
    ELSE LET k == ApplyKeyFn(fn, rows[i])
             quantity == IF IsNone(rows[i].quantity) THEN 0 ELSE Val(rows[i].quantity)
         IN  IF Falsy(k) THEN AggregateFrom(rows, fn, i + 1, totals)
             ELSE AggregateFrom(rows, fn, i + 1, AddTo(totals, Val(k), quantity))

aggregate_quantities(rows, fn) == AggregateFrom(rows, fn, 1, <<>>)

EmptySummary ==
    [in_both_unchanged |-> <<>>, in_both_changed |-> <<>>,
     only_in_snapshot_1 |-> <<>>, only_in_snapshot_2 |-> <<>>,
     delta_by_key |-> <<>>]

UnchangedKeys_AllShared(snapshot_1_totals, snapshot_2_totals) ==
    Sorted(DOMAIN snapshot_1_totals \cap DOMAIN snapshot_2_totals)

\* sorted(k for k in shared_keys if totals1[k] == totals2[k])
UnchangedKeys(snapshot_1_totals, snapshot_2_totals) ==
    Sorted({k \in DOMAIN snapshot_1_totals \cap DOMAIN snapshot_2_totals :
                snapshot_1_totals[k] = snapshot_2_totals[k]})

ChangedKeys_AllShared(snapshot_1_totals, snapshot_2_totals) ==
    Sorted(DOMAIN snapshot_1_totals \cap DOMAIN snapshot_2_totals)

\* sorted(k for k in shared_keys if totals1[k] != totals2[k])
ChangedKeys(snapshot_1_totals, snapshot_2_totals) ==
    Sorted({k \in DOMAIN snapshot_1_totals \cap DOMAIN snapshot_2_totals :
                snapshot_1_totals[k] # snapshot_2_totals[k]})

ChangedItem_DeltaReversed(item_key, snapshot_1_quantity, snapshot_2_quantity) ==
    [key |-> item_key,
     snapshot_1_quantity |-> snapshot_1_quantity,
     snapshot_2_quantity |-> snapshot_2_quantity,
     delta |-> snapshot_1_quantity - snapshot_2_quantity]

\* A ChangedItem whose delta is the size of the change
ChangedItem_AbsoluteDelta(item_key, snapshot_1_quantity, snapshot_2_quantity) ==
    [key |-> item_key,
     snapshot_1_quantity |-> snapshot_1_quantity,
     snapshot_2_quantity |-> snapshot_2_quantity,
     delta |-> IF snapshot_2_quantity >= snapshot_1_quantity
               THEN snapshot_2_quantity - snapshot_1_quantity
               ELSE snapshot_1_quantity - snapshot_2_quantity]

\* One ChangedItem of in_both_changed
ChangedItem(item_key, snapshot_1_quantity, snapshot_2_quantity) ==
    [key |-> item_key,
     snapshot_1_quantity |-> snapshot_1_quantity,
     snapshot_2_quantity |-> snapshot_2_quantity,
     delta |-> snapshot_2_quantity - snapshot_1_quantity]

\* {item["key"]: item["delta"] for item in in_both_changed}: a later item
\* with the same key would replace an earlier one
DeltaByKey(in_both_changed) ==
    [k \in {in_both_changed[i].key : i \in 1..Len(in_both_changed)} |->
        in_both_changed[CHOOSE i \in 1..Len(in_both_changed) :
            /\ in_both_changed[i].key = k
            /\ \A j \in 1..Len(in_both_changed) :
                   in_both_changed[j].key = k => j <= i].delta]

\* The body of reconcile_rows once both aggregates are computed
\* A summary that has an entry only for the categories a key falls in
SummaryOf_OmitsEmpty(snapshot_1_totals, snapshot_2_totals) ==
    LET changed_keys == ChangedKeys(snapshot_1_totals, snapshot_2_totals)
        in_both_changed ==
            [i \in 1..Len(changed_keys) |->
                ChangedItem(changed_keys[i],
                            snapshot_1_totals[changed_keys[i]],
                            snapshot_2_totals[changed_keys[i]])]
        whole == [in_both_unchanged |-> UnchangedKeys(snapshot_1_totals, snapshot_2_totals),
                  in_both_changed |-> in_both_changed,
                  only_in_snapshot_1 |->
                     Sorted(DOMAIN snapshot_1_totals \ DOMAIN snapshot_2_totals),
                  only_in_snapshot_2 |->
                     Sorted(DOMAIN snapshot_2_totals \ DOMAIN snapshot_1_totals),
                  delta_by_key |-> DeltaByKey(in_both_changed)]
    IN  [entry \in {e \in DOMAIN whole : whole[e] # <<>>} |-> whole[entry]]

SummaryOf(snapshot_1_totals, snapshot_2_totals) ==
    LET changed_keys == ChangedKeys(snapshot_1_totals, snapshot_2_totals)
        in_both_changed ==
            [i \in 1..Len(changed_keys) |->
                ChangedItem(changed_keys[i],
                            snapshot_1_totals[changed_keys[i]],
                            snapshot_2_totals[changed_keys[i]])]
    IN  [in_both_unchanged |-> UnchangedKeys(snapshot_1_totals, snapshot_2_totals),
         in_both_changed |-> in_both_changed,
         only_in_snapshot_1 |->
            Sorted(DOMAIN snapshot_1_totals \ DOMAIN snapshot_2_totals),
         only_in_snapshot_2 |->
            Sorted(DOMAIN snapshot_2_totals \ DOMAIN snapshot_1_totals),
         delta_by_key |-> DeltaByKey(in_both_changed)]

\* The body of reconcile_rows after resolve_key_fn
ReconcileWith(snapshot_1_rows, snapshot_2_rows, fn) ==
    SummaryOf(aggregate_quantities(snapshot_1_rows, fn),
              aggregate_quantities(snapshot_2_rows, fn))

\* reconcile_rows: [exc, value]
reconcile_rows(snapshot_1_rows, snapshot_2_rows, k) ==
    LET r == resolve_key_fn(k)
    IN  IF r.exc # "" THEN [exc |-> r.exc, value |-> EmptySummary]
        ELSE [exc |-> "", value |-> ReconcileWith(snapshot_1_rows, snapshot_2_rows, r.fn)]

\* The counting loop of detect_merged_duplicates from row i on
RECURSIVE CountFrom(_, _, _, _)
CountFrom(rows, fn, i, acc) ==
    IF i > Len(rows) THEN acc
    ELSE LET item_key == ApplyKeyFn(fn, rows[i])
             quantity == IF IsNone(rows[i].quantity) THEN 0 ELSE Val(rows[i].quantity)
         IN  IF Falsy(item_key) THEN CountFrom(rows, fn, i + 1, acc)
             ELSE CountFrom(rows, fn, i + 1,
                    [row_counts |-> AddTo(acc.row_counts, Val(item_key), 1),
                     merged_totals |-> AddTo(acc.merged_totals, Val(item_key), quantity)])

DuplicatesWith_SingleRows(rows, fn) ==
    LET acc == CountFrom(rows, fn, 1, [row_counts |-> <<>>, merged_totals |-> <<>>])
        keys == Sorted({k \in DOMAIN acc.row_counts : ~(acc.row_counts[k] < 1)})
    IN  [i \in 1..Len(keys) |->
            [key |-> keys[i],
             row_count |-> acc.row_counts[keys[i]],
             merged_quantity |-> acc.merged_totals[keys[i]]]]

\* The body of detect_merged_duplicates after resolve_key_fn
DuplicatesWith(rows, fn) ==
    LET acc == CountFrom(rows, fn, 1, [row_counts |-> <<>>, merged_totals |-> <<>>])
        keys == Sorted({k \in DOMAIN acc.row_counts : ~(acc.row_counts[k] <= 1)})
    IN  [i \in 1..Len(keys) |->
            [key |-> keys[i],
             row_count |-> acc.row_counts[keys[i]],
             merged_quantity |-> acc.merged_totals[keys[i]]]]

\* detect_merged_duplicates: [exc, value]
detect_merged_duplicates(rows, k) ==
    LET r == resolve_key_fn(k)
    IN  IF r.exc # "" THEN [exc |-> r.exc, value |-> <<>>]
        ELSE [exc |-> "", value |-> DuplicatesWith(rows, r.fn)]

----------------------------------------------------------------------------
\* The rows the engine is run on: UnifiedInventoryRow values (the fields the
\* engine reads), as the parser or a caller builds them.

Row(sku, name, quantity, location) ==
    [sku |-> sku, name |-> name, quantity |-> quantity, location |-> location]

TxtSku001 == <<83, 75, 85, 45, 48, 48, 49>>   \* "SKU-001"
TxtSku002 == <<83, 75, 85, 45, 48, 48, 50>>   \* "SKU-002"
TxtAb == <<65, 98>>                            \* "Ab"
TxtAbPadded == <<32, 97, 98, 32>>              \* " ab "
TxtCd == <<99, 100>>                           \* "cd"
TxtW1 == <<87, 49>>                            \* "W1"
TxtW1Lower == <<119, 49, 32>>                  \* "w1 "
TxtW2 == <<87, 50>>                            \* "W2"

RowPool ==
    { Row(Some(TxtSku001), Some(TxtAb), Some(10), Some(TxtW1)),
      Row(Some(TxtSku001), Some(TxtAbPadded), Some(5), Some(TxtW1Lower)),
      Row(Some(TxtSku002), Some(TxtCd), None, Some(TxtW2)),
      Row(None, None, Some(7), Some(TxtW1)),
      Row(Some(TxtSku002), Some(TxtAb), Some(-2), Some(TxtW2)) }

----------------------------------------------------------------------------
\* SpecRecon: a caller assembles two row lists and makes one call of the engine

InitRecon ==
    /\ rows1 = <<>>
    /\ rows2 = <<>>
    /\ pc = "build"
    /\ key = ""
    /\ totals1 = <<>>
    /\ totals2 = <<>>
    /\ summary = EmptySummary
    /\ dups = <<>>
    /\ raised = ""
    /\ NormIdle
    /\ SchemaIdle
    /\ ParseIdle
    /\ EngineIdle

AppendRow1(r) ==
    /\ pc = "build"
    /\ Len(rows1) < MaxRows
    /\ rows1' = Append(rows1, r)
    /\ UNCHANGED <<rows2, pc, key, totals1, totals2, summary, dups, raised, normVars, schemaVars, parseVars, engineVars>>

AppendRow2(r) ==
    /\ pc = "build"
    /\ Len(rows2) < MaxRows
    /\ rows2' = Append(rows2, r)
    /\ UNCHANGED <<rows1, pc, key, totals1, totals2, summary, dups, raised, normVars, schemaVars, parseVars, engineVars>>

\* reconcile_rows(rows1, rows2, key=k); totals1 and totals2 record the two
\* aggregates the call computes (snapshot_1_totals, snapshot_2_totals)
ReconcileRows(k) ==
    /\ pc = "build"
    /\ \E res \in {reconcile_rows(rows1, rows2, k)} :
        /\ pc' = IF res.exc = "" THEN "reconciled" ELSE "failed"
        /\ key' = k
        /\ raised' = res.exc
        /\ summary' = res.value
        /\ totals1' = IF res.exc = "" THEN aggregate_quantities(rows1, resolve_key_fn(k).fn)
                      ELSE <<>>
        /\ totals2' = IF res.exc = "" THEN aggregate_quantities(rows2, resolve_key_fn(k).fn)
                      ELSE <<>>
    /\ UNCHANGED <<rows1, rows2, dups, normVars, schemaVars, parseVars, engineVars>>

\* detect_merged_duplicates(rows1, key=k): the function takes one row list,
\* here the first, before any row of the second is there
DetectMergedDuplicates(k) ==
    /\ pc = "build"
    /\ rows2 = <<>>
    /\ \E res \in {detect_merged_duplicates(rows1, k)} :
        /\ pc' = IF res.exc = "" THEN "duplicates" ELSE "failed"
        /\ key' = k
        /\ raised' = res.exc
        /\ dups' = res.value
    /\ UNCHANGED <<rows1, rows2, totals1, totals2, summary, normVars, schemaVars, parseVars, engineVars>>

NextRecon ==
    \/ \E r \in RowPool : AppendRow1(r)
    \/ \E r \in RowPool : AppendRow2(r)
    \/ \E k \in KeyArgs : ReconcileRows(k)
    \/ \E k \in KeyArgs : DetectMergedDuplicates(k)

SpecRecon == InitRecon /\ [][NextRecon]_vars

----------------------------------------------------------------------------
\* Properties of the reconciliation engine (SpecRecon)

\* The key the strategy of `key` argument k gives a row
KeyOf(k, row) == ApplyKeyFn(resolve_key_fn(k).fn, row)

\* A row's quantity, None counted as 0
QuantityOrZero(row) == IF IsNone(row.quantity) THEN 0 ELSE Val(row.quantity)

\* The sum of the quantities of the rows at the positions I
RECURSIVE SumQuantities(_, _)
SumQuantities(rows, I) ==
    IF I = {} THEN 0
    ELSE LET i == CHOOSE j \in I : TRUE
         IN  QuantityOrZero(rows[i]) + SumQuantities(rows, I \ {i})

\* The positions of the rows whose key is the text x
RowsWithKey(rows, k, x) == {i \in 1..Len(rows) : KeyOf(k, rows[i]) = Some(x)}

\* The key values that are not None
NonNoneKeys(rows, k) ==
    {Val(KeyOf(k, rows[i])) : i \in {j \in 1..Len(rows) : ~IsNone(KeyOf(k, rows[j]))}}

\* The key values that are neither None nor the empty string
NonEmptyKeys(rows, k) == NonNoneKeys(rows, k) \ {<<>>}

\* totals maps exactly the keys K, each to the sum over its rows
IsSumPerKey(totals, rows, k, K) ==
    /\ DOMAIN totals = K
    /\ \A x \in K : totals[x] = SumQuantities(rows, RowsWithKey(rows, k, x))

\* The rows of a list in every order
Reorderings(rows) ==
    {[i \in 1..Len(rows) |-> rows[f[i]]] :
        f \in {g \in [1..Len(rows) -> 1..Len(rows)] :
                    \A a, b \in 1..Len(rows) : g[a] = g[b] => a = b}}

StrictlyAscending(keys) ==
    \A i \in 1..(Len(keys) - 1) : StrLess(keys[i], keys[i + 1])

ChangedKeySet == {summary.in_both_changed[i].key : i \in 1..Len(summary.in_both_changed)}

\* C1 (as stated): the aggregate's key set is exactly the set of the rows' keys
\* that are not None, each mapped to the sum of the quantities of its rows
\* (None counted as 0).
C1_AggregateCoversEveryNonNoneKey ==
    pc = "reconciled" =>
        /\ IsSumPerKey(totals1, rows1, key, NonNoneKeys(rows1, key))
        /\ IsSumPerKey(totals2, rows2, key, NonNoneKeys(rows2, key))

\* C1 (amended): the aggregate's key set is exactly the set of the rows' keys
\* that are neither None nor the empty string, and the value of each key is the
\* sum of the quantities of all its rows, None counted as 0: rows with the
\* same key are added, never replaced and never rejected.
C1_AggregateSumsPerNonEmptyKey ==
    pc = "reconciled" =>
        /\ IsSumPerKey(totals1, rows1, key, NonEmptyKeys(rows1, key))
        /\ IsSumPerKey(totals2, rows2, key, NonEmptyKeys(rows2, key))

\* Two rows with one key were merged into a total that is neither row's
\* quantity, a row without a key was skipped and a None quantity was counted.
C1_Witness ==
    /\ pc = "reconciled"
    /\ \E x \in DOMAIN totals1 :
          /\ Cardinality(RowsWithKey(rows1, key, x)) >= 2
          /\ \A i \in RowsWithKey(rows1, key, x) : totals1[x] # QuantityOrZero(rows1[i])
    /\ \E i \in 1..Len(rows2) : Falsy(KeyOf(key, rows2[i]))
    /\ \E i \in 1..Len(rows2) : IsNone(rows2[i].quantity) /\ ~Falsy(KeyOf(key, rows2[i]))

\* C2: reconcile_rows puts every key of the two aggregates into exactly one
\* of in_both_unchanged (in both, equal totals), in_both_changed (in both,
\* unequal totals), only_in_snapshot_1, only_in_snapshot_2; the categories
\* are pairwise disjoint, cover the union of the key sets, and every changed
\* entry carries total1, total2 and total2 - total1.
C2_FourWayPartition ==
    pc = "reconciled" =>
        LET K1 == DOMAIN totals1
            K2 == DOMAIN totals2
            U == Range(summary.in_both_unchanged)
            Ch == ChangedKeySet
            O1 == Range(summary.only_in_snapshot_1)
            O2 == Range(summary.only_in_snapshot_2)
        IN  /\ U = {x \in K1 \cap K2 : totals1[x] = totals2[x]}
            /\ Ch = {x \in K1 \cap K2 : totals1[x] # totals2[x]}
            /\ O1 = K1 \ K2
            /\ O2 = K2 \ K1
            /\ U \cap Ch = {} /\ U \cap O1 = {} /\ U \cap O2 = {}
            /\ Ch \cap O1 = {} /\ Ch \cap O2 = {} /\ O1 \cap O2 = {}
            /\ U \cup Ch \cup O1 \cup O2 = K1 \cup K2
            /\ \A i \in 1..Len(summary.in_both_changed) :
                  LET item == summary.in_both_changed[i]
                  IN  /\ item.snapshot_1_quantity = totals1[item.key]
                      /\ item.snapshot_2_quantity = totals2[item.key]
                      /\ item.delta = totals2[item.key] - totals1[item.key]

\* A summary with a changed key, a key only in snapshot 1 and one only in 2
C2_Witness ==
    /\ pc = "reconciled"
    /\ summary.in_both_changed # <<>>
    /\ summary.only_in_snapshot_1 # <<>>
    /\ summary.only_in_snapshot_2 # <<>>

\* C3: delta_by_key has exactly the keys of the in_both_changed entries, maps
\* each to that entry's delta (total2 - total1), holds no key of the other
\* three categories and no zero delta.
C3_DeltaByKeyIsTheChangedSet ==
    pc = "reconciled" =>
        /\ DOMAIN summary.delta_by_key = ChangedKeySet
        /\ \A i \in 1..Len(summary.in_both_changed) :
              LET item == summary.in_both_changed[i]
              IN  /\ summary.delta_by_key[item.key] = item.delta
                  /\ item.delta = totals2[item.key] - totals1[item.key]
        /\ \A x \in DOMAIN summary.delta_by_key :
              /\ summary.delta_by_key[x] # 0
              /\ x \notin Range(summary.in_both_unchanged)
              /\ x \notin Range(summary.only_in_snapshot_1)
              /\ x \notin Range(summary.only_in_snapshot_2)

\* A summary with a changed key beside an unchanged one
C3_Witness ==
    /\ pc = "reconciled"
    /\ DOMAIN summary.delta_by_key # {}
    /\ summary.in_both_unchanged # <<>>

\* C4: the three key lists are strictly ascending in code-point order and
\* in_both_changed is strictly ascending by key, whatever the order of the
\* rows and the size of the deltas.
C4_ListsStrictlyAscending ==
    pc = "reconciled" =>
        /\ StrictlyAscending(summary.in_both_unchanged)
        /\ StrictlyAscending(summary.only_in_snapshot_1)
        /\ StrictlyAscending(summary.only_in_snapshot_2)
        /\ StrictlyAscending([i \in 1..Len(summary.in_both_changed) |->
                                summary.in_both_changed[i].key])

\* Two changed keys whose rows came in descending key order and whose deltas
\* descend along the list
C4_Witness ==
    /\ pc = "reconciled"
    /\ Len(summary.in_both_changed) = 2
    /\ summary.in_both_changed[1].delta > summary.in_both_changed[2].delta
    /\ Len(rows1) = 2
    /\ StrLess(Val(KeyOf(key, rows1[2])), Val(KeyOf(key, rows1[1])))

\* C5 (as stated): reconcile_rows(A, A, key) for non-empty A has no changed
\* entry, no key only in one snapshot, no delta, and in_both_unchanged holds
\* every key value that is not None for some row of A.
C5_RoundTripCoversEveryNonNoneKey ==
    (pc = "reconciled" /\ rows1 = rows2 /\ rows1 # <<>>) =>
        /\ summary.in_both_changed = <<>>
        /\ summary.only_in_snapshot_1 = <<>>
        /\ summary.only_in_snapshot_2 = <<>>
        /\ DOMAIN summary.delta_by_key = {}
        /\ NonNoneKeys(rows1, key) \subseteq Range(summary.in_both_unchanged)

\* C5 (amended): reconcile_rows(A, A, key) for non-empty A has no changed
\* entry, no key only in one snapshot, no delta, and in_both_unchanged holds
\* every key value that is neither None nor the empty string for some row.
C5_RoundTripCoversEveryNonEmptyKey ==
    (pc = "reconciled" /\ rows1 = rows2 /\ rows1 # <<>>) =>
        /\ summary.in_both_changed = <<>>
        /\ summary.only_in_snapshot_1 = <<>>
        /\ summary.only_in_snapshot_2 = <<>>
        /\ DOMAIN summary.delta_by_key = {}
        /\ NonEmptyKeys(rows1, key) \subseteq Range(summary.in_both_unchanged)

\* A round trip of two rows with different keys, both reported unchanged
C5_Witness ==
    /\ pc = "reconciled"
    /\ rows1 = rows2
    /\ Len(rows1) = 2
    /\ Len(summary.in_both_unchanged) = 2

\* C6: aggregate_quantities gives the same key set and totals for every
\* permutation of a row list, and so reconcile_rows and
\* detect_merged_duplicates return the same result for permuted inputs.
C6_OrderOfRowsIsIrrelevant ==
    /\ pc = "reconciled" =>
          /\ \A p \in Reorderings(rows1) :
                /\ aggregate_quantities(p, resolve_key_fn(key).fn) = totals1
                /\ reconcile_rows(p, rows2, key).value = summary
          /\ \A q \in Reorderings(rows2) :
                /\ aggregate_quantities(q, resolve_key_fn(key).fn) = totals2
                /\ reconcile_rows(rows1, q, key).value = summary
    /\ pc = "duplicates" =>
          \A p \in Reorderings(rows1) :
              detect_merged_duplicates(p, key).value = dups

\* Two different rows with one key and different quantities were aggregated
C6_Witness ==
    /\ pc = "reconciled"
    /\ Len(rows1) = 2
    /\ ~Falsy(KeyOf(key, rows1[1]))
    /\ KeyOf(key, rows1[1]) = KeyOf(key, rows1[2])
    /\ QuantityOrZero(rows1[1]) # QuantityOrZero(rows1[2])

----------------------------------------------------------------------------
\* Field normalizers (inventory_parser/normalize.py)

\* DataIssue(code, message, field); the message is prose for the reader of the
\* report and carries no decision, so the record keeps code and field
DataIssue(code, field) == [code |-> code, field |-> Some(field)]

\* A call ends by returning the pair (value, issues), or by raising
Returned(value, issues) == [exc |-> "", value |-> value, issues |-> issues]
Raised(exc) == [exc |-> exc, value |-> None, issues |-> <<>>]

IsDigit(c) == c \in 48..57
AllDigits(s) == \A i \in 1..Len(s) : IsDigit(s[i])
NotSpace(c) == ~IsSpace(c)
NotUnderscore(c) == c # 95

\* re.sub(r"\s+", "", text)
RemoveWhitespace(text) == SelectSeq(text, NotSpace)

\* A normalize_text that gives None for an empty text without saying so
normalize_text_SilentEmpty(value, field) ==
    IF IsNone(value)
    THEN Returned(None, <<DataIssue("missing_value", field)>>)
    ELSE IF Strip(Val(value)) = <<>>
    THEN Returned(None, <<>>)
    ELSE IF Strip(Val(value)) # Val(value)
    THEN Returned(Some(Strip(Val(value))), <<DataIssue("whitespace_trimmed", field)>>)
    ELSE Returned(Some(Strip(Val(value))), <<>>)

normalize_text(value, field) ==
    IF IsNone(value)
    THEN Returned(None, <<DataIssue("missing_value", field)>>)
    ELSE IF Strip(Val(value)) = <<>>
    THEN Returned(None, <<DataIssue("missing_value", field)>>)
    ELSE IF Strip(Val(value)) # Val(value)
    THEN Returned(Some(Strip(Val(value))), <<DataIssue("whitespace_trimmed", field)>>)
    ELSE Returned(Some(Strip(Val(value))), <<>>)

TxtSkuPrefix == <<83, 75, 85>>
TxtSkuHyphenPrefix == <<83, 75, 85, 45>>

\* A "$" also matches before a newline that ends the text
AtEnd(text, n) == Len(text) = n \/ (Len(text) = n + 1 /\ text[n + 1] = 10)

\* _SKU_STANDARD_RE.match(candidate), ^SKU-\d{3}$
MatchesSkuStandard(candidate) ==
    /\ Len(candidate) >= 7
    /\ SubSeq(candidate, 1, 4) = TxtSkuHyphenPrefix
    /\ AllDigits(SubSeq(candidate, 5, 7))
    /\ AtEnd(candidate, 7)

\* A pattern without the "$": SKU and three digits, and anything after them
MatchesSkuNoHyphen_Unanchored(candidate) ==
    /\ Len(candidate) >= 6
    /\ SubSeq(candidate, 1, 3) = TxtSkuPrefix
    /\ AllDigits(SubSeq(candidate, 4, 6))

\* _SKU_NO_HYPHEN_RE.match(candidate), ^SKU\d{3}$
MatchesSkuNoHyphen(candidate) ==
    /\ Len(candidate) >= 6
    /\ SubSeq(candidate, 1, 3) = TxtSkuPrefix
    /\ AllDigits(SubSeq(candidate, 4, 6))
    /\ AtEnd(candidate, 6)

\* The body of normalize_sku once normalize_text has given a text
SkuOfCleaned(cleaned, candidate, issues) ==
    IF MatchesSkuStandard(candidate)
    THEN Returned(Some(candidate),
                  IF candidate # cleaned
                  THEN Append(issues, DataIssue("sku_format_normalized", "sku"))
                  ELSE issues)
    ELSE IF MatchesSkuNoHyphen(candidate)
    THEN Returned(Some(TxtSkuHyphenPrefix
                       \o SubSeq(candidate, Len(candidate) - 2, Len(candidate))),
                  Append(issues, DataIssue("sku_format_normalized", "sku")))
    ELSE Returned(Some(candidate), Append(issues, DataIssue("invalid_sku_format", "sku")))

SkuAfterText(nt) ==
    IF IsNone(nt.value) THEN nt
    ELSE SkuOfCleaned(Val(nt.value), RemoveWhitespace(Upper(Val(nt.value))), nt.issues)

normalize_sku(value) == SkuAfterText(normalize_text(value, "sku"))

----------------------------------------------------------------------------
\* decimal.Decimal(text), as far as parse_quantity uses it.  A Decimal is
\* [kind, negative, coeff, exp]: kind "finite" is (-1)^negative * coeff * 10^exp,
\* the other kinds are "inf", "nan" (quiet), "snan" (signaling) and "invalid"
\* for a text the constructor rejects with InvalidOperation

RECURSIVE DigitsValue(_)
DigitsValue(s) ==
    IF s = <<>> THEN 0
    ELSE DigitsValue(SubSeq(s, 1, Len(s) - 1)) * 10 + (s[Len(s)] - 48)

RECURSIVE Pow10(_)
Pow10(n) == IF n <= 0 THEN 1 ELSE 10 * Pow10(n - 1)

\* The first position of code point c in s, 0 when there is none
IndexOf(s, c) ==
    IF \E i \in 1..Len(s) : s[i] = c
    THEN CHOOSE i \in 1..Len(s) : s[i] = c /\ \A j \in 1..(i - 1) : s[j] # c
    ELSE 0

HasSign(s) == s # <<>> /\ s[1] \in {43, 45}
Unsigned(s) == IF HasSign(s) THEN Tail(s) ELSE s
SignedValue(s) == IF HasSign(s) /\ s[1] = 45 THEN 0 - DigitsValue(Tail(s))
                  ELSE DigitsValue(Unsigned(s))

TxtInf == <<105, 110, 102>>
TxtInfinity == <<105, 110, 102, 105, 110, 105, 116, 121>>
TxtNan == <<110, 97, 110>>
TxtSnan == <<115, 110, 97, 110>>

DecimalSpecial(kind, negative) == [kind |-> kind, negative |-> negative, coeff |-> 0, exp |-> 0]
DecimalInvalid == DecimalSpecial("invalid", FALSE)

\* The mantissa: digits with at most one "." and at least one digit
IntPart(m) == IF IndexOf(m, 46) = 0 THEN m ELSE SubSeq(m, 1, IndexOf(m, 46) - 1)
FracPart(m) == IF IndexOf(m, 46) = 0 THEN <<>> ELSE SubSeq(m, IndexOf(m, 46) + 1, Len(m))
IsMantissa(m) ==
    /\ AllDigits(IntPart(m))
    /\ AllDigits(FracPart(m))
    /\ Len(IntPart(m)) + Len(FracPart(m)) >= 1

\* The exponent after "e": an optional sign and at least one digit
IsExponent(e) == Unsigned(e) # <<>> /\ AllDigits(Unsigned(e))

MantissaOf(body) == IF IndexOf(body, 101) = 0 THEN body
                    ELSE SubSeq(body, 1, IndexOf(body, 101) - 1)
ExponentOf(body) == SubSeq(body, IndexOf(body, 101) + 1, Len(body))

DecimalNumber(negative, body) ==
    IF /\ IsMantissa(MantissaOf(body))
       /\ IndexOf(body, 101) # 0 => IsExponent(ExponentOf(body))
    THEN [kind |-> "finite",
          negative |-> negative,
          coeff |-> DigitsValue(IntPart(MantissaOf(body)) \o FracPart(MantissaOf(body))),
          exp |-> (IF IndexOf(body, 101) = 0 THEN 0 ELSE SignedValue(ExponentOf(body)))
                  - Len(FracPart(MantissaOf(body)))]
    ELSE DecimalInvalid

\* body is the text after the sign, lower-cased (the grammar ignores case)
DecimalBody(negative, body) ==
    IF body \in {TxtInf, TxtInfinity} THEN DecimalSpecial("inf", negative)
    ELSE IF Len(body) >= 3 /\ SubSeq(body, 1, 3) = TxtNan /\ AllDigits(SubSeq(body, 4, Len(body)))
    THEN DecimalSpecial("nan", negative)
    ELSE IF Len(body) >= 4 /\ SubSeq(body, 1, 4) = TxtSnan /\ AllDigits(SubSeq(body, 5, Len(body)))
    THEN DecimalSpecial("snan", negative)
    ELSE DecimalNumber(negative, body)

\* Decimal(text): surrounding whitespace is stripped, underscores are dropped
DecimalSigned(t) == DecimalBody(HasSign(t) /\ t[1] = 45, Unsigned(t))
Decimal(text) == DecimalSigned(Lower(SelectSeq(Strip(text), NotUnderscore)))

\* parsed != parsed.to_integral_value(), for a finite or infinite parsed
IsIntegral(d) == d.kind = "inf" \/ d.exp >= 0 \/ d.coeff % Pow10(0 - d.exp) = 0

\* int(parsed), for a finite integral parsed
IntOf(d) ==
    (IF d.negative THEN -1 ELSE 1)
    * (IF d.exp >= 0 THEN d.coeff * Pow10(d.exp) ELSE d.coeff \div Pow10(0 - d.exp))

\* The body of parse_quantity from "quantity = int(parsed)" on
QuantityOfInt(quantity, issues) ==
    Returned(Some(quantity),
             IF quantity < 0 THEN Append(issues, DataIssue("negative_quantity", "quantity"))
             ELSE issues)

\* The body of parse_quantity once Decimal(cleaned) has returned parsed
QuantityOfDecimal(cleaned, parsed, issues) ==
    IF parsed.kind = "snan"
    THEN \* to_integral_value() signals on a signaling NaN, outside the try
         Raised("decimal.InvalidOperation")
    ELSE IF parsed.kind = "nan" \/ ~IsIntegral(parsed)
    THEN Returned(None, Append(issues, DataIssue("non_integral_quantity", "quantity")))
    ELSE IF parsed.kind = "inf"
    THEN \* int(Decimal("Infinity"))
         Raised("OverflowError")
    ELSE QuantityOfInt(IntOf(parsed),
                       IF IndexOf(cleaned, 46) # 0
                       THEN Append(issues, DataIssue("decimal_quantity_format", "quantity"))
                       ELSE issues)

QuantityOfCleaned(cleaned, parsed, issues) ==
    IF parsed.kind = "invalid"
    THEN Returned(None, Append(issues, DataIssue("invalid_quantity", "quantity")))
    ELSE QuantityOfDecimal(cleaned, parsed, issues)

QuantityAfterText(nt) ==
    IF IsNone(nt.value) THEN nt
    ELSE QuantityOfCleaned(Val(nt.value), Decimal(Val(nt.value)), nt.issues)

parse_quantity(value) == QuantityAfterText(normalize_text(value, "quantity"))

----------------------------------------------------------------------------
\* datetime.strptime(text, fmt).date() for the two formats parse_inventory_date
\* tries.  A date is [year, month, day]

\* %Y is \d\d\d\d
IsYearToken(t) == Len(t) = 4 /\ AllDigits(t)

\* %m is 1[0-2]|0[1-9]|[1-9]
IsMonthToken(t) ==
    \/ Len(t) = 2 /\ t[1] = 49 /\ t[2] \in 48..50
    \/ Len(t) = 2 /\ t[1] = 48 /\ t[2] \in 49..57
    \/ Len(t) = 1 /\ t[1] \in 49..57

\* %d is 3[0-1]|[1-2]\d|0[1-9]|[1-9]| [1-9]
IsDayToken(t) ==
    \/ Len(t) = 2 /\ t[1] = 51 /\ t[2] \in 48..49
    \/ Len(t) = 2 /\ t[1] \in 49..50 /\ IsDigit(t[2])
    \/ Len(t) = 2 /\ t[1] = 48 /\ t[2] \in 49..57
    \/ Len(t) = 1 /\ t[1] \in 49..57
    \/ Len(t) = 2 /\ t[1] = 32 /\ t[2] \in 49..57

\* int(token); the day token may start with a space
TokenValue(t) == DigitsValue(SelectSeq(t, IsDigit))

IsLeap(year) == (year % 4 = 0 /\ year % 100 # 0) \/ year % 400 = 0
DaysInMonth(year, month) ==
    IF month \in {4, 6, 9, 11} THEN 30
    ELSE IF month = 2 THEN (IF IsLeap(year) THEN 29 ELSE 28)
    ELSE 31

\* date(year, month, day) raises ValueError outside the calendar
IsDate(year, month, day) ==
    /\ year >= 1
    /\ month \in 1..12
    /\ day \in 1..DaysInMonth(year, month)

Date(year, month, day) == [year |-> year, month |-> month, day |-> day]

DateOfTokens(y, m, d) ==
    IF IsYearToken(y) /\ IsMonthToken(m) /\ IsDayToken(d)
       /\ IsDate(TokenValue(y), TokenValue(m), TokenValue(d))
    THEN Some(Date(TokenValue(y), TokenValue(m), TokenValue(d)))
    ELSE None

\* The text cut at its first two separators into three fields; a third
\* separator stays in the last field and makes it no token.  None when the
\* text has fewer than two separators
SecondSep(text, sep) ==
    IF IndexOf(text, sep) = 0 THEN 0
    ELSE IF IndexOf(SubSeq(text, IndexOf(text, sep) + 1, Len(text)), sep) = 0 THEN 0
    ELSE IndexOf(text, sep) + IndexOf(SubSeq(text, IndexOf(text, sep) + 1, Len(text)), sep)

ThreeFields(text, sep) ==
    IF SecondSep(text, sep) = 0 THEN None
    ELSE Some(<<SubSeq(text, 1, IndexOf(text, sep) - 1),
                SubSeq(text, IndexOf(text, sep) + 1, SecondSep(text, sep) - 1),
                SubSeq(text, SecondSep(text, sep) + 1, Len(text))>>)

\* strptime(text, "%Y-%m-%d").date(); None stands for the ValueError it raises
StrptimeIsoFields(f) == IF IsNone(f) THEN None ELSE DateOfTokens(Val(f)[1], Val(f)[2], Val(f)[3])
strptime_iso(text) == StrptimeIsoFields(ThreeFields(text, 45))

\* strptime(text, "%m/%d/%Y").date(); None stands for the ValueError it raises
StrptimeLegacyFields(f) == IF IsNone(f) THEN None ELSE DateOfTokens(Val(f)[3], Val(f)[1], Val(f)[2])
strptime_legacy(text) == StrptimeLegacyFields(ThreeFields(text, 47))

\* The loop of parse_inventory_date over the two formats
DateOfParses(iso, legacy, issues) ==
    IF ~IsNone(iso) THEN Returned(iso, issues)
    ELSE IF ~IsNone(legacy)
    THEN Returned(legacy, Append(issues, DataIssue("non_iso_date_format", "counted_on")))
    ELSE Returned(None, Append(issues, DataIssue("invalid_date", "counted_on")))

DateAfterText(nt) ==
    IF IsNone(nt.value) THEN nt
    ELSE DateOfParses(strptime_iso(Val(nt.value)), strptime_legacy(Val(nt.value)), nt.issues)

parse_inventory_date(value) == DateAfterText(normalize_text(value, "counted_on"))

----------------------------------------------------------------------------
\* Schemas and the row parser (inventory_parser/parser.py)

TxtSku == <<115, 107, 117>>
TxtName == <<110, 97, 109, 101>>
TxtQuantity == <<113, 117, 97, 110, 116, 105, 116, 121>>
TxtLocation == <<108, 111, 99, 97, 116, 105, 111, 110>>
TxtLastCounted == <<108, 97, 115, 116, 95, 99, 111, 117, 110, 116, 101, 100>>
TxtProductName == <<112, 114, 111, 100, 117, 99, 116, 95, 110, 97, 109, 101>>
TxtQty == <<113, 116, 121>>
TxtWarehouse == <<119, 97, 114, 101, 104, 111, 117, 115, 101>>
TxtUpdatedAt == <<117, 112, 100, 97, 116, 101, 100, 95, 97, 116>>

SchemaDefinition(name, fields, column_map) ==
    [name |-> name, fields |-> fields, column_map |-> column_map]

SnapshotV1 ==
    SchemaDefinition("snapshot_v1",
                     {TxtSku, TxtName, TxtQuantity, TxtLocation, TxtLastCounted},
                     [sku |-> TxtSku, name |-> TxtName, quantity |-> TxtQuantity,
                      location |-> TxtLocation, counted_on |-> TxtLastCounted])

SnapshotV2 ==
    SchemaDefinition("snapshot_v2",
                     {TxtSku, TxtProductName, TxtQty, TxtWarehouse, TxtUpdatedAt},
                     [sku |-> TxtSku, name |-> TxtProductName, quantity |-> TxtQty,
                      location |-> TxtWarehouse, counted_on |-> TxtUpdatedAt])

_SCHEMAS == <<SnapshotV1, SnapshotV2>>

\* The header row of a file written in a schema's column order
HeadersOf(schema) ==
    <<schema.column_map.sku, schema.column_map.name, schema.column_map.quantity,
      schema.column_map.location, schema.column_map.counted_on>>

\* dict.get(key): None when the key is absent.  The keys of a raw_row are the
\* header texts of the file (Some(text)) and None for surplus cells
DictGet(d, k) == IF Some(k) \in DOMAIN d THEN d[Some(k)] ELSE None

\* The raw_row csv.DictReader makes of a header row and the cells of one line
\* (a cell the line lacks is None); of two equal headers the later one wins
DictZip(hs, cells) ==
    [k \in {Some(hs[i]) : i \in 1..Len(hs)} |->
        cells[CHOOSE i \in 1..Len(hs) :
                /\ Some(hs[i]) = k
                /\ \A j \in (i + 1)..Len(hs) : Some(hs[j]) # k]]

\* An _is_blank_row that compares the cells without trimming them
_is_blank_row_NoTrim(raw_row, hs) ==
    \A i \in 1..Len(hs) :
        \/ IsNone(DictGet(raw_row, hs[i]))
        \/ Val(DictGet(raw_row, hs[i])) = <<>>

_is_blank_row(raw_row, hs) ==
    \A i \in 1..Len(hs) :
        \/ IsNone(DictGet(raw_row, hs[i]))
        \/ Strip(Val(DictGet(raw_row, hs[i]))) = <<>>

UnifiedInventoryRow(source_file, source_row, source_schema, sku, name, quantity, location, counted_on, raw, issues) ==
    [source_file |-> source_file, source_row |-> source_row,
     source_schema |-> source_schema, sku |-> sku, name |-> name,
     quantity |-> quantity, location |-> location, counted_on |-> counted_on,
     raw |-> raw, issues |-> issues]

\* _to_row from the five normalizer results on; only parse_quantity can raise,
\* and what it raises leaves _to_row
RowOfResults(line_number, source_file, schema, raw, s, n, q, l, d) ==
    IF q.exc # "" THEN [exc |-> q.exc, row |-> None]
    ELSE [exc |-> "",
          row |-> Some(UnifiedInventoryRow(source_file, line_number, schema.name,
                                           s.value, n.value, q.value, l.value, d.value, raw,
                                           s.issues \o n.issues \o q.issues
                                               \o l.issues \o d.issues))]

RawOf(raw_row, schema) ==
    [sku |-> DictGet(raw_row, schema.column_map.sku),
     name |-> DictGet(raw_row, schema.column_map.name),
     quantity |-> DictGet(raw_row, schema.column_map.quantity),
     location |-> DictGet(raw_row, schema.column_map.location),
     counted_on |-> DictGet(raw_row, schema.column_map.counted_on)]

RowOfRaw(line_number, source_file, schema, raw) ==
    RowOfResults(line_number, source_file, schema, raw,
                 normalize_sku(raw.sku),
                 normalize_text(raw.name, "name"),
                 parse_quantity(raw.quantity),
                 normalize_text(raw.location, "location"),
                 parse_inventory_date(raw.counted_on))

_to_row(raw_row, line_number, source_file, schema) ==
    RowOfRaw(line_number, source_file, schema, RawOf(raw_row, schema))

----------------------------------------------------------------------------
\* SpecNorm: a caller hands one value to a normalizer, or parse_snapshot comes
\* to one row of a file.  The functions keep no state between calls, so a
\* behaviour is one call: it starts with the call's arguments and the one
\* step computes the outcome

\* Generated texts: every text of up to MaxLen characters over " 05.-x"
FieldChars == {32, 48, 53, 46, 45, 120}
GenTexts == UNION {[1..n -> FieldChars] : n \in 0..MaxLen}

\* Quantity cells: "80", "80.00", "+5", "1_0", "1e2", "1E2", "15e-1", "100e-2",
\* "Infinity", "-inf", "NaN", "nan12", "sNaN", "-0", " 12 ", "abc"
QuantityWords ==
    {<<56, 48>>,
     <<56, 48, 46, 48, 48>>,
     <<43, 53>>,
     <<49, 95, 48>>,
     <<49, 101, 50>>,
     <<49, 69, 50>>,
     <<49, 53, 101, 45, 49>>,
     <<49, 48, 48, 101, 45, 50>>,
     <<73, 110, 102, 105, 110, 105, 116, 121>>,
     <<45, 105, 110, 102>>,
     <<78, 97, 78>>,
     <<110, 97, 110, 49, 50>>,
     <<115, 78, 97, 78>>,
     <<45, 48>>,
     <<32, 49, 50, 32>>,
     <<97, 98, 99>>}

\* SKU cells: a prefix, a hyphen, digits and a tail
SkuPrefixes == {<<83, 75, 85>>, <<115, 107, 117>>, <<83, 75>>, <<32, 83, 107, 117>>}
SkuHyphens == {<<45>>, <<>>, <<32, 45, 32>>, <<95>>}
SkuDigits == {<<48, 48, 49>>, <<49, 50>>, <<49, 50, 51, 52>>, <<48, 48, 97>>}
SkuTails == {<<>>, <<32>>, <<120>>}
SkuWords == {p \o h \o d \o t : p \in SkuPrefixes, h \in SkuHyphens, d \in SkuDigits, t \in SkuTails}

\* Date cells: three tokens and two separators, "-" or "/"
DateTokens ==
    {<<50, 48, 50, 52>>,
     <<50, 48, 50, 51>>,
     <<48, 48, 48, 48>>,
     <<49, 57, 48, 48>>,
     <<48, 49>>,
     <<49>>,
     <<49, 50>>,
     <<49, 51>>,
     <<48, 50>>,
     <<50, 57>>,
     <<51, 48>>,
     <<51, 49>>,
     <<32, 53>>}
DateWords ==
    {a \o <<s1>> \o b \o <<s2>> \o c :
        a \in DateTokens, b \in DateTokens, c \in DateTokens, s1 \in {45, 47}, s2 \in {45, 47}}

\* The values handed to each normalizer: None, every generated text, and the
\* cells of its kind
Cells(words) == {None} \cup {Some(t) : t \in GenTexts \cup words}
TextValues == Cells({})
SkuValues == Cells(SkuWords)
QuantityValues == Cells(QuantityWords)
DateValues == Cells(DateWords)

\* The header row of the file, which detect_schema matched to the schema: the
\* schema's own column names, or the same names in capitals
FileHeaders(schema, style) ==
    IF style = "capitals"
    THEN [i \in 1..5 |-> Upper(HeadersOf(schema)[i])]
    ELSE HeadersOf(schema)

SchemaNamed(name) == CHOOSE schema \in Range(_SCHEMAS) : schema.name = name

NormCalls ==
    {[fn |-> "normalize_text", value |-> v, field |-> f] : v \in TextValues, f \in {"name", "location"}}
    \cup {[fn |-> "normalize_sku", value |-> v, field |-> "sku"] : v \in SkuValues}
    \cup {[fn |-> "parse_quantity", value |-> v, field |-> "quantity"] : v \in QuantityValues}
    \cup {[fn |-> "parse_inventory_date", value |-> v, field |-> "counted_on"] : v \in DateValues}

\* The cells of the rows parse_snapshot comes to, column by column
SkuCells == {None, Some(<<83, 75, 85, 45, 48, 48, 49>>), Some(<<32, 115, 107, 117, 32, 48, 48, 50, 32>>), Some(<<98, 97, 100>>)}
NameCells == {None, Some(<<65, 98>>), Some(<<32, 32>>)}
QuantityCells == {None, Some(<<49, 48>>), Some(<<53, 46, 48>>), Some(<<45, 51>>), Some(<<49, 46, 53>>), Some(<<97, 98, 99>>), Some(<<78, 97, 78>>), Some(<<73, 110, 102, 105, 110, 105, 116, 121>>), Some(<<115, 78, 97, 78>>)}
LocationCells == {None, Some(<<87, 49>>), Some(<<32, 119, 49, 32>>)}
DateCells == {None, Some(<<50, 48, 50, 52, 45, 48, 49, 45, 48, 53>>), Some(<<48, 49, 47, 48, 53, 47, 50, 48, 50, 52>>), Some(<<50, 48, 50, 51, 45, 48, 50, 45, 50, 57>>)}
LineCells == SkuCells \X NameCells \X QuantityCells \X LocationCells \X DateCells

RowCalls ==
    {[raw_row |-> DictZip(FileHeaders(schema, style), cells),
      headers |-> FileHeaders(schema, style),
      line_number |-> n,
      schema |-> schema.name] :
        cells \in LineCells, schema \in Range(_SCHEMAS), style \in {"given", "capitals"}, n \in 2..3}

InitNorm ==
    /\ \/ normCall \in NormCalls /\ rowCall = NoRowCall
       \/ normCall = NoCall /\ rowCall \in RowCalls
    /\ normResult = NoResult
    /\ rowResult = NoRow
    /\ rows1 = <<>>
    /\ rows2 = <<>>
    /\ pc = "idle"
    /\ key = ""
    /\ totals1 = <<>>
    /\ totals2 = <<>>
    /\ summary = EmptySummary
    /\ dups = <<>>
    /\ raised = ""
    /\ SchemaIdle
    /\ ParseIdle
    /\ EngineIdle

NormalizeText ==
    /\ normCall.fn = "normalize_text"
    /\ pc = "idle"
    /\ pc' = "done"
    /\ normResult' = normalize_text(normCall.value, normCall.field)
    /\ UNCHANGED <<rows1, rows2, key, totals1, totals2, summary, dups, raised>>
    /\ UNCHANGED <<normCall, rowCall, rowResult, schemaVars, parseVars, engineVars>>

\* The caller hands the text normalize_text returned to normalize_text again;
\* normCall keeps the input of the first call
NormalizeTextAgain ==
    /\ normCall.fn = "normalize_text"
    /\ pc = "done"
    /\ ~IsNone(normResult.value)
    /\ pc' = "again"
    /\ normCall' = [fn |-> "normalize_text", value |-> normResult.value,
                    field |-> normCall.field, input |-> normCall.value]
    /\ normResult' = normalize_text(normResult.value, normCall.field)
    /\ UNCHANGED <<rows1, rows2, key, totals1, totals2, summary, dups, raised>>
    /\ UNCHANGED <<rowCall, rowResult, schemaVars, parseVars, engineVars>>

NormalizeSku ==
    /\ normCall.fn = "normalize_sku"
    /\ pc = "idle"
    /\ pc' = "done"
    /\ normResult' = normalize_sku(normCall.value)
    /\ UNCHANGED <<rows1, rows2, key, totals1, totals2, summary, dups, raised>>
    /\ UNCHANGED <<normCall, rowCall, rowResult, schemaVars, parseVars, engineVars>>

ParseQuantity ==
    /\ normCall.fn = "parse_quantity"
    /\ pc = "idle"
    /\ pc' = "done"
    /\ normResult' = parse_quantity(normCall.value)
    /\ UNCHANGED <<rows1, rows2, key, totals1, totals2, summary, dups, raised>>
    /\ UNCHANGED <<normCall, rowCall, rowResult, schemaVars, parseVars, engineVars>>

ParseInventoryDate ==
    /\ normCall.fn = "parse_inventory_date"
    /\ pc = "idle"
    /\ pc' = "done"
    /\ normResult' = parse_inventory_date(normCall.value)
    /\ UNCHANGED <<rows1, rows2, key, totals1, totals2, summary, dups, raised>>
    /\ UNCHANGED <<normCall, rowCall, rowResult, schemaVars, parseVars, engineVars>>

\* parse_snapshot hands every row that is not blank to _to_row
ToRow ==
    /\ rowCall # NoRowCall
    /\ pc = "idle"
    /\ ~_is_blank_row(rowCall.raw_row, rowCall.headers)
    /\ pc' = "done"
    /\ rowResult' = _to_row(rowCall.raw_row, rowCall.line_number, "snapshot.csv",
                            SchemaNamed(rowCall.schema))
    /\ UNCHANGED <<rows1, rows2, key, totals1, totals2, summary, dups, raised>>
    /\ UNCHANGED <<normCall, normResult, rowCall, schemaVars, parseVars, engineVars>>

NextNorm ==
    \/ NormalizeText
    \/ NormalizeTextAgain
    \/ NormalizeSku
    \/ ParseQuantity
    \/ ParseInventoryDate
    \/ ToRow

SpecNorm == InitNorm /\ [][NextNorm]_vars

----------------------------------------------------------------------------
\* Properties of the normalizers and the row parser

NormCallDone == normCall # NoCall /\ pc = "done"
RowCallDone == rowCall # NoRowCall /\ pc = "done"

\* C8 (as stated): every normalizer call ends by returning a (value, issues)
\* pair and never by raising, whatever value it is given, and so every
\* conversion of a non-blank raw row ends by returning a record.
\* parse_quantity("Infinity") and parse_quantity("sNaN") end by raising, and so
\* does _to_row for a row with such a quantity cell.
C8_NormalizersNeverRaise ==
    /\ NormCallDone => normResult.exc = ""
    /\ RowCallDone => rowResult.exc = "" /\ ~IsNone(rowResult.row)

\* The codes of the issues that explain a None
NoneCodes == {"missing_value", "invalid_quantity", "non_integral_quantity", "invalid_date"}
RowFields == {"sku", "name", "quantity", "location", "counted_on"}

Explains(issues, field) ==
    \E i \in 1..Len(issues) : issues[i].field = Some(field) /\ issues[i].code \in NoneCodes

\* C9: in every record the row parser produces, each of sku, name, quantity,
\* location and counted_on that is None has an issue in the record's issues
\* whose field names it and whose code is missing_value, invalid_quantity,
\* non_integral_quantity or invalid_date; and every normalizer that returns
\* the value None returns with it an issue list that is not empty and holds
\* such an issue for its field.
C9_NoneFieldHasIssue ==
    /\ (NormCallDone /\ normResult.exc = "" /\ IsNone(normResult.value))
        => normResult.issues # <<>> /\ Explains(normResult.issues, normCall.field)
    /\ (RowCallDone /\ rowResult.exc = "")
        => \A f \in RowFields :
            IsNone(Val(rowResult.row)[f]) => Explains(Val(rowResult.row).issues, f)

\* A record with a quantity and a date that could not be parsed and with a
\* name that is blank: three None fields, each for a different reason
C9_Witness ==
    /\ RowCallDone
    /\ rowResult.exc = ""
    /\ IsNone(Val(rowResult.row).quantity)
    /\ IsNone(Val(rowResult.row).counted_on)
    /\ IsNone(Val(rowResult.row).name)
    /\ ~IsNone(Val(rowResult.row).sku)
    /\ \E i \in 1..Len(Val(rowResult.row).issues) :
        Val(rowResult.row).issues[i] = DataIssue("non_integral_quantity", "quantity")
    /\ \E i \in 1..Len(Val(rowResult.row).issues) :
        Val(rowResult.row).issues[i] = DataIssue("invalid_date", "counted_on")

----------------------------------------------------------------------------
\* Schema detection (inventory_parser/parser.py)

_normalize_header(header) == IF IsNone(header) THEN <<>> ELSE Lower(Strip(Val(header)))

TxtNoHeaderRow == <<67, 83, 86, 32, 102, 105, 108, 101, 32, 104, 97, 115, 32, 110, 111, 32, 104, 101, 97, 100, 101, 114, 32, 114, 111, 119>>
TxtUnrecognized == <<85, 110, 114, 101, 99, 111, 103, 110, 105, 122, 101, 100, 32, 67, 83, 86, 32, 115, 99, 104, 101, 109, 97, 32, 102, 105, 101, 108, 100, 115, 58, 32>>
TxtCommaSpace == <<44, 32>>

\* sep.join(texts)
RECURSIVE Join(_, _)
Join(sep, texts) ==
    IF texts = <<>> THEN <<>>
    ELSE IF Len(texts) = 1 THEN texts[1]
    ELSE texts[1] \o sep \o Join(sep, Tail(texts))

\* A schema that takes every header row whose fields are among its own
SchemaMatches_Subset(normalized_fields, schema) == normalized_fields \subseteq schema.fields

\* normalized_fields == schema.fields
SchemaMatches(normalized_fields, schema) == normalized_fields = schema.fields

\* The loop over the registered schemas: the first that matches, from the i-th on
RECURSIVE FirstMatch(_, _, _)
FirstMatch(registered, i, normalized_fields) ==
    IF i > Len(registered) THEN None
    ELSE IF SchemaMatches(normalized_fields, registered[i]) THEN Some(registered[i])
    ELSE FirstMatch(registered, i + 1, normalized_fields)

NormalizedFields(hs) == {_normalize_header(hs[i]) : i \in {j \in 1..Len(hs) : ~IsNone(hs[j])}}

\* A detect_schema that takes a header row no schema matches for snapshot_v1
SchemaFound_GuessFirst(match, normalized_fields) ==
    IF ~IsNone(match)
    THEN [exc |-> "", message |-> <<>>, schema |-> Some(Val(match).name)]
    ELSE [exc |-> "", message |-> <<>>, schema |-> Some("snapshot_v1")]

SchemaFound(match, normalized_fields) ==
    IF ~IsNone(match)
    THEN [exc |-> "", message |-> <<>>, schema |-> Some(Val(match).name)]
    ELSE [exc |-> "ValueError",
          message |-> TxtUnrecognized \o Join(TxtCommaSpace, Sorted(normalized_fields)),
          schema |-> None]

\* detect_schema(headers) with _SCHEMAS = registered
detect_schema(hs, registered) ==
    IF IsNone(hs) \/ Val(hs) = <<>>
    THEN [exc |-> "ValueError", message |-> TxtNoHeaderRow, schema |-> None]
    ELSE SchemaFound(FirstMatch(registered, 1, NormalizedFields(Val(hs))),
                     NormalizedFields(Val(hs)))

----------------------------------------------------------------------------
\* SpecSchema: a header row is that of a schema, or empty, or absent; up to
\* MaxEdits edits are made to it; then detect_schema is called on it.  The
\* schemas are registered in one order or the other

\* Headers a file may have besides those of its schema: "extra", "", "Sku",
\* " name ", and an entry that is None
TxtExtra == <<101, 120, 116, 114, 97>>
ExtraHeaders == {None, Some(TxtExtra), Some(<<>>), Some(<<83, 107, 117>>), Some(<<32, 110, 97, 109, 101, 32>>)}

Padded(text) == <<32>> \o text \o <<9>>
Styles == {"capitals", "padded"}
Restyled(header, style) ==
    IF IsNone(header) THEN header
    ELSE IF style = "capitals" THEN Some(Upper(Val(header)))
    ELSE Some(Padded(Val(header)))

Without(hs, i) == SubSeq(hs, 1, i - 1) \o SubSeq(hs, i + 1, Len(hs))
Swapped(hs, i) == [j \in 1..Len(hs) |-> IF j = i THEN hs[i + 1] ELSE IF j = i + 1 THEN hs[i] ELSE hs[j]]
SomeEach(texts) == [i \in 1..Len(texts) |-> Some(texts[i])]

InitSchema ==
    /\ schemas \in {_SCHEMAS, Swapped(_SCHEMAS, 1)}
    /\ headers \in {None, Some(<<>>), Some(SomeEach(HeadersOf(SnapshotV1))), Some(SomeEach(HeadersOf(SnapshotV2)))}
    /\ edits = 0
    /\ detected = NoDetection
    /\ pc = "headers"
    /\ rows1 = <<>>
    /\ rows2 = <<>>
    /\ key = ""
    /\ totals1 = <<>>
    /\ totals2 = <<>>
    /\ summary = EmptySummary
    /\ dups = <<>>
    /\ raised = ""
    /\ NormIdle
    /\ ParseIdle
    /\ EngineIdle

EditHeaders(hs) ==
    /\ pc = "headers"
    /\ edits < MaxEdits
    /\ headers' = Some(hs)
    /\ edits' = edits + 1
    /\ UNCHANGED <<schemas, detected, reconVars, normVars, parseVars, engineVars>>

DropHeader(i) ==
    /\ ~IsNone(headers)
    /\ i \in 1..Len(Val(headers))
    /\ EditHeaders(Without(Val(headers), i))

AddHeader(header) ==
    /\ ~IsNone(headers)
    /\ EditHeaders(Append(Val(headers), header))

RestyleHeader(i, style) ==
    /\ ~IsNone(headers)
    /\ i \in 1..Len(Val(headers))
    /\ EditHeaders([Val(headers) EXCEPT ![i] = Restyled(@, style)])

SwapHeaders(i) ==
    /\ ~IsNone(headers)
    /\ i \in 1..(Len(Val(headers)) - 1)
    /\ EditHeaders(Swapped(Val(headers), i))

DetectSchema ==
    /\ pc = "headers"
    /\ pc' = "detected"
    /\ detected' = detect_schema(headers, schemas)
    /\ UNCHANGED <<rows1, rows2, key, totals1, totals2, summary, dups, raised>>
    /\ UNCHANGED <<schemas, headers, edits, normVars, parseVars, engineVars>>

HeaderPositions == IF IsNone(headers) THEN {} ELSE 1..Len(Val(headers))

NextSchema ==
    \/ \E i \in HeaderPositions : DropHeader(i)
    \/ \E header \in ExtraHeaders : AddHeader(header)
    \/ \E i \in HeaderPositions, style \in Styles : RestyleHeader(i, style)
    \/ \E i \in HeaderPositions : SwapHeaders(i)
    \/ DetectSchema

SpecSchema == InitSchema /\ [][NextSchema]_vars

----------------------------------------------------------------------------
\* Properties of schema detection

\* The trimmed, lower-cased header set of a header list: that of its entries
\* that are texts
HeaderSet(hs) == {Lower(Strip(Val(hs[i]))) : i \in {j \in 1..Len(hs) : ~IsNone(hs[j])}}

V1Fields == {TxtSku, TxtName, TxtQuantity, TxtLocation, TxtLastCounted}
V2Fields == {TxtSku, TxtProductName, TxtQty, TxtWarehouse, TxtUpdatedAt}

\* What C10 says detect_schema does with a header list
Expected(hs) ==
    IF IsNone(hs) \/ Val(hs) = <<>>
    THEN [exc |-> "ValueError", message |-> TxtNoHeaderRow, schema |-> None]
    ELSE IF HeaderSet(Val(hs)) = V1Fields
    THEN [exc |-> "", message |-> <<>>, schema |-> Some("snapshot_v1")]
    ELSE IF HeaderSet(Val(hs)) = V2Fields
    THEN [exc |-> "", message |-> <<>>, schema |-> Some("snapshot_v2")]
    ELSE [exc |-> "ValueError",
          message |-> TxtUnrecognized \o Join(TxtCommaSpace, Sorted(HeaderSet(Val(hs)))),
          schema |-> None]

\* C10: detect_schema ends for every header list, and what it does is fixed by
\* the list: a list whose trimmed, lower-cased header set is exactly that of
\* snapshot_v1 gives snapshot_v1, one whose set is exactly that of snapshot_v2
\* gives snapshot_v2, every other list that is not empty fails with
\* 'Unrecognized CSV schema fields: ' followed by the sorted normalized headers,
\* and an empty or absent list fails with 'CSV file has no header row'; with
\* the schemas registered in the other order the outcome is the same.
C10_DetectSchemaIsTotalAndExact ==
    pc = "detected" =>
        /\ detected = Expected(headers)
        /\ detected = detect_schema(headers, Swapped(schemas, 1))

\* snapshot_v1 found for a header row that is not written as the schema
\* names it, with snapshot_v2 registered first
C10_Witness ==
    /\ pc = "detected"
    /\ schemas[1].name = "snapshot_v2"
    /\ edits = MaxEdits
    /\ headers # Some(SomeEach(HeadersOf(SnapshotV1)))
    /\ detected.schema = Some("snapshot_v1")

----------------------------------------------------------------------------
\* The snapshot parser (inventory_parser/parser.py, parse_snapshot and
\* parse_both_snapshots).  A file is the sequence of its lines, a line the
\* list of its cells as the csv reader splits it; a line with no character
\* is the empty list

\* A file-level DataIssue; its message is "Row {row} ..."
FileIssue(code, row) == [code |-> code, field |-> None, row |-> row]

ParseResult(file_path, schema_name, parsed_rows, issues) ==
    [file_path |-> file_path, schema_name |-> schema_name, rows |-> parsed_rows, file_issues |-> issues]

CombinedParseResult(snapshot_1, snapshot_2) == [snapshot_1 |-> snapshot_1, snapshot_2 |-> snapshot_2]

\* enumerate(reader, start=2)
EnumerateStart == 2

\* reader.fieldnames: the first line of the file, None when there is no line
Fieldnames(lines) == IF lines = <<>> THEN None ELSE Some(lines[1])

\* headers = reader.fieldnames or []
HeadersOr(fieldnames) == IF IsNone(fieldnames) THEN <<>> ELSE Val(fieldnames)

\* csv.DictReader.__next__ passes over the lines that are the empty list: the
\* line it takes after having read `read` lines, 0 when no line is left
NextRowLine(lines, read) ==
    IF \E i \in (read + 1)..Len(lines) : lines[i] # <<>>
    THEN CHOOSE i \in (read + 1)..Len(lines) :
            /\ lines[i] # <<>>
            /\ \A j \in (read + 1)..(i - 1) : lines[j] = <<>>
    ELSE 0

\* The cells of a line under the header: cell i, or None where the line is short
PaddedCells(fieldnames, row) ==
    [i \in 1..Len(fieldnames) |-> IF i <= Len(row) THEN Some(row[i]) ELSE None]

\* A reader that drops the cells beyond the header instead of keeping them
\* under the key None
DictReaderRow_DropsSurplus(fieldnames, row) == DictZip(fieldnames, PaddedCells(fieldnames, row))

\* The raw_row csv.DictReader makes of a line: the cells by header, and under
\* the key None the list of the cells beyond the header
DictReaderRow(fieldnames, row) ==
    IF Len(row) > Len(fieldnames)
    THEN DictZip(fieldnames, PaddedCells(fieldnames, row))
            @@ (None :> SubSeq(row, Len(fieldnames) + 1, Len(row)))
    ELSE DictZip(fieldnames, PaddedCells(fieldnames, row))

\* The file-level issues of one row, in the order the loop body adds them
RowFileIssues(raw_row, hs, n) ==
    (IF None \in DOMAIN raw_row THEN <<FileIssue("row_has_extra_columns", n)>> ELSE <<>>)
    \o (IF _is_blank_row(raw_row, hs) THEN <<FileIssue("blank_row_skipped", n)>> ELSE <<>>)

\* The body of the loop of parse_snapshot for one raw_row: the file issues
\* it adds, and the outcome of _to_row when the row is not blank
LoopBody(raw_row, hs, n, source_file, matched_schema) ==
    [issues |-> RowFileIssues(raw_row, hs, n),
     blank |-> _is_blank_row(raw_row, hs),
     converted |-> IF _is_blank_row(raw_row, hs) THEN NoRow
                   ELSE _to_row(raw_row, n, source_file, matched_schema)]

----------------------------------------------------------------------------
\* SpecParse: parse_snapshot is called on one file, or parse_both_snapshots on
\* two; a step opens a file and detects its schema, takes one row, or returns

\* Header lines: those of the two schemas, that of snapshot_v1 written
\* " SKU ,Name,QUANTITY,location, last_counted ", and one no schema has
\* (sku,name,qty,location,when_counted)
HeaderLineRestyled == <<<<32, 83, 75, 85, 32>>, <<78, 97, 109, 101>>, <<81, 85, 65, 78, 84, 73, 84, 89>>, <<108, 111, 99, 97, 116, 105, 111, 110>>, <<32, 108, 97, 115, 116, 95, 99, 111, 117, 110, 116, 101, 100, 32>>>>
HeaderLineUnknown == <<<<115, 107, 117>>, <<110, 97, 109, 101>>, <<113, 116, 121>>, <<108, 111, 99, 97, 116, 105, 111, 110>>, <<119, 104, 101, 110, 95, 99, 111, 117, 110, 116, 101, 100>>>>
AcceptedHeaderLines == {HeadersOf(SnapshotV1), HeadersOf(SnapshotV2), HeaderLineRestyled}

\* Lines after the header:
\*   SKU-001,Ab,10,W1,2024-01-05
LineGood == <<<<83, 75, 85, 45, 48, 48, 49>>, <<65, 98>>, <<49, 48>>, <<87, 49>>, <<50, 48, 50, 52, 45, 48, 49, 45, 48, 53>>>>
\*   SKU-002,Ab,-3,W2,01/05/2024,EXTRA    (one cell more than the header)
LineExtra == <<<<83, 75, 85, 45, 48, 48, 50>>, <<65, 98>>, <<45, 51>>, <<87, 50>>, <<48, 49, 47, 48, 53, 47, 50, 48, 50, 52>>, <<69, 88, 84, 82, 65>>>>
\*   ,,,,                                  (every cell empty)
LineBlank == <<<<>>, <<>>, <<>>, <<>>, <<>>>>
\*   a line of one space                   (one blank cell, the others absent)
LineSpace == <<<<32>>>>
\*   ,,,,,x                                (blank, with one cell more)
LineBlankExtra == <<<<>>, <<>>, <<>>, <<>>, <<>>, <<120>>>>
\*   SKU-001,Ab,Infinity                   (short, with a quantity no integer holds)
LineInfinity == <<<<83, 75, 85, 45, 48, 48, 49>>, <<65, 98>>, <<73, 110, 102, 105, 110, 105, 116, 121>>>>
\*   a line with no character
LineEmpty == <<>>
DataLines == {LineGood, LineExtra, LineBlank, LineSpace, LineBlankExtra, LineInfinity, LineEmpty}

Bodies == UNION {[1..n -> DataLines] : n \in 0..MaxLines}

\* Files parse_snapshot is called on: every accepted header line with every
\* body, and files it does not accept: one with no line, one whose first line
\* is empty, two with a header line no schema has
Files ==
    {<<h>> \o body : h \in AcceptedHeaderLines, body \in Bodies}
    \cup {<<>>,
          <<LineEmpty, HeadersOf(SnapshotV1), LineGood>>,
          <<HeaderLineUnknown>>,
          <<HeaderLineUnknown, LineGood>>}

\* Files parse_both_snapshots is called on, two at a time
PairFiles ==
    {<<HeadersOf(SnapshotV1), LineGood>>,
     <<HeadersOf(SnapshotV2), LineExtra, LineEmpty, LineBlank>>,
     <<HeadersOf(SnapshotV1), LineInfinity>>,
     <<HeaderLineUnknown, LineGood>>,
     <<>>}

File(csv_path, lines) == [path |-> csv_path, lines |-> lines]

InitParse ==
    /\ \/ /\ call = "parse_snapshot"
          /\ pending \in {<<File("snapshot_1.csv", f)>> : f \in Files}
       \/ /\ call = "parse_both_snapshots"
          /\ pending \in {<<File("snapshot_1.csv", f1), File("snapshot_2.csv", f2)>> :
                            f1 \in PairFiles, f2 \in PairFiles}
    /\ NotOpen
    /\ results = <<>>
    /\ returned = None
    /\ parseRaised = NoException
    /\ pc = "open"
    /\ rows1 = <<>>
    /\ rows2 = <<>>
    /\ key = ""
    /\ totals1 = <<>>
    /\ totals2 = <<>>
    /\ summary = EmptySummary
    /\ dups = <<>>
    /\ raised = ""
    /\ NormIdle
    /\ SchemaIdle
    /\ EngineIdle

\* parse_snapshot up to the loop: open the file, read the header line, detect
\* the schema
OpenSnapshot ==
    /\ pc = "open"
    /\ pending # <<>>
    /\ \E f \in {Head(pending)} :
       \E det \in {detect_schema(Some(SomeEach(HeadersOr(Fieldnames(f.lines)))), _SCHEMAS)} :
        /\ path' = f.path
        /\ handle' = f.lines
        /\ line_num' = IF f.lines = <<>> THEN 0 ELSE 1
        /\ matched' = det.schema
        /\ pc' = IF det.exc = "" THEN "rows" ELSE "raised"
        /\ parseRaised' = IF det.exc = "" THEN parseRaised
                          ELSE [exc |-> det.exc, message |-> det.message]
    /\ pending' = Tail(pending)
    /\ lineNumber' = EnumerateStart
    /\ records' = <<>>
    /\ file_issues' = <<>>
    /\ rowLine' = <<>>
    /\ issueLine' = <<>>
    /\ UNCHANGED <<call, results, returned>>
    /\ UNCHANGED <<rows1, rows2, key, totals1, totals2, summary, dups, raised>>
    /\ UNCHANGED <<normVars, schemaVars, engineVars>>

\* One round of the loop: the reader gives the next row, the loop body adds
\* its file issues and, unless it is blank, its record
ParseRow ==
    /\ pc = "rows"
    /\ NextRowLine(handle, line_num) # 0
    /\ \E i \in {NextRowLine(handle, line_num)} :
       \E body \in {LoopBody(DictReaderRow(handle[1], handle[i]), handle[1], lineNumber,
                             path, SchemaNamed(Val(matched)))} :
        /\ line_num' = i
        /\ file_issues' = file_issues \o body.issues
        /\ issueLine' = issueLine \o [k \in 1..Len(body.issues) |-> i]
        /\ IF body.blank
           THEN UNCHANGED <<records, rowLine, pc, parseRaised>>
           ELSE IF body.converted.exc # ""
           THEN /\ pc' = "raised"
                /\ parseRaised' = [exc |-> body.converted.exc, message |-> <<>>]
                /\ UNCHANGED <<records, rowLine>>
           ELSE /\ records' = Append(records, Val(body.converted.row))
                /\ rowLine' = Append(rowLine, i)
                /\ UNCHANGED <<pc, parseRaised>>
    /\ lineNumber' = lineNumber + 1
    /\ UNCHANGED <<call, pending, path, handle, matched, results, returned>>
    /\ UNCHANGED <<rows1, rows2, key, totals1, totals2, summary, dups, raised>>
    /\ UNCHANGED <<normVars, schemaVars, engineVars>>

\* The reader has no row left: parse_snapshot returns its ParseResult, and
\* parse_both_snapshots goes on to the second file or returns both
ReturnResult ==
    /\ pc = "rows"
    /\ NextRowLine(handle, line_num) = 0
    /\ \E result \in {ParseResult(path, Val(matched), records, file_issues)} :
        /\ results' = Append(results, result)
        /\ returned' = IF pending # <<>> THEN None
                       ELSE IF call = "parse_snapshot" THEN Some(result)
                       ELSE Some(CombinedParseResult(results[1], result))
    /\ pc' = IF pending # <<>> THEN "open" ELSE "returned"
    /\ line_num' = Len(handle)
    /\ UNCHANGED <<call, pending, path, handle, lineNumber, matched>>
    /\ UNCHANGED <<records, file_issues, rowLine, issueLine, parseRaised>>
    /\ UNCHANGED <<rows1, rows2, key, totals1, totals2, summary, dups, raised>>
    /\ UNCHANGED <<normVars, schemaVars, engineVars>>

NextParse ==
    \/ OpenSnapshot
    \/ ParseRow
    \/ ReturnResult

SpecParse == InitParse /\ [][NextParse]_vars

----------------------------------------------------------------------------
\* Properties of the snapshot parser

\* The column of the file that the matched schema maps field f to: the one
\* whose header, trimmed and lower-cased, is the schema's name for f
ColumnOf(f) ==
    CHOOSE j \in 1..Len(handle[1]) :
        Lower(Strip(handle[1][j])) = SchemaNamed(Val(matched)).column_map[f]

\* The original cell of line i of the file in that column (None when the
\* line is too short to have it)
OriginalCell(i, f) == PaddedCells(handle[1], handle[i])[ColumnOf(f)]

\* What the normalizer of field f makes of a cell
NormalizedCell(f, cell) ==
    CASE f = "sku" -> normalize_sku(cell).value
      [] f = "name" -> normalize_text(cell, "name").value
      [] f = "quantity" -> parse_quantity(cell).value
      [] f = "location" -> normalize_text(cell, "location").value
      [] f = "counted_on" -> parse_inventory_date(cell).value

\* C11 (as stated): in every file parse_snapshot accepts, also one whose
\* header cells match the schema only after trimming and lower-casing, every
\* record's raw[f] is the original cell of its row in the column the schema
\* maps f to, and its field f is the normalizer's result on that cell.
\* With the header line " SKU ,Name,QUANTITY,location, last_counted " the
\* record of the row SKU-001,Ab,10,W1,2024-01-05 has raw.sku = None.
C11_RawIsTheOriginalCell ==
    ~IsNone(matched) =>
        \A k \in 1..Len(records) : \A f \in RowFields :
            /\ records[k].raw[f] = OriginalCell(rowLine[k], f)
            /\ records[k][f] = NormalizedCell(f, OriginalCell(rowLine[k], f))

\* The file being read has no header row: it has no line, or its first line
\* has no cell
NoHeaderRow == handle = <<>> \/ handle[1] = <<>>

\* Its header set is that of no registered schema
NoSchemaMatches == ~NoHeaderRow /\ HeaderSet(SomeEach(handle[1])) \notin {V1Fields, V2Fields}

\* C12: when the file has no header row or its header set matches no
\* registered schema, parse_snapshot raises (ValueError, with the message of
\* the anomaly) before any row is taken and returns no ParseResult: it has no
\* record and no file issue, and nothing is returned.  parse_both_snapshots
\* returns a CombinedParseResult only of two files that both parsed, and when
\* either file fails it raises and returns nothing, the ParseResult of the
\* other included.
C12_StructuralAnomaliesAbort ==
    /\ (path # "" /\ (NoHeaderRow \/ NoSchemaMatches)) =>
        /\ pc = "raised"
        /\ parseRaised.exc = "ValueError"
        /\ NoHeaderRow => parseRaised.message = TxtNoHeaderRow
        /\ NoSchemaMatches => SubSeq(parseRaised.message, 1, Len(TxtUnrecognized)) = TxtUnrecognized
        /\ records = <<>> /\ file_issues = <<>> /\ lineNumber = EnumerateStart
        /\ \A k \in 1..Len(results) : results[k].file_path # path
    /\ pc = "raised" => returned = None /\ parseRaised.exc # ""
    /\ (call = "parse_both_snapshots" /\ ~IsNone(returned)) =>
        /\ pc = "returned"
        /\ parseRaised = NoException
        /\ Len(results) = 2
        /\ results[1].file_path = "snapshot_1.csv" /\ results[2].file_path = "snapshot_2.csv"
        /\ Val(returned) = CombinedParseResult(results[1], results[2])
    /\ (call = "parse_both_snapshots" /\ IsNone(returned)) => pc # "returned"

\* parse_both_snapshots has parsed its first file, the header set of the
\* second matches no schema, and the call has raised
C12_Witness ==
    /\ call = "parse_both_snapshots"
    /\ Len(results) = 1
    /\ path = "snapshot_2.csv"
    /\ NoSchemaMatches
    /\ pc = "raised"
    /\ returned = None

\* The lines of the open file that are data rows, up to line n: the lines
\* after the header that are not completely empty (the csv reader gives no
\* row for a completely empty line)
DataRowLines(n) == SelectSeq([i \in 1..(IF n > 1 THEN n - 1 ELSE 0) |-> i + 1], LAMBDA i : handle[i] # <<>>)

\* The last line the loop has finished with: a row whose conversion raised
\* was not finished
Completed == IF pc = "raised" THEN line_num - 1 ELSE line_num

\* Every declared column of line i is absent or blank after trimming
AllBlank(i) == \A j \in 1..Len(handle[1]) : j > Len(handle[i]) \/ Strip(handle[i][j]) = <<>>

BlankRowLines(n) == SelectSeq(DataRowLines(n), AllBlank)

RecordRowLines(n) == SelectSeq(DataRowLines(n), LAMBDA i : ~AllBlank(i))

BlankIssues(issues) == SelectSeq(issues, LAMBDA issue : issue.code = "blank_row_skipped")

HasExcess(i) == Len(handle[i]) > Len(handle[1])

\* Line i with the excess values removed
WithoutExcess(i) == IF HasExcess(i) THEN SubSeq(handle[i], 1, Len(handle[1])) ELSE handle[i]

ExtraColumnIssues(issues) == SelectSeq(issues, LAMBDA issue : issue.code = "row_has_extra_columns")

\* C14: the row_has_extra_columns issues of a file are as many as the data
\* rows read that have more values than the header has columns, each is a
\* file-level issue added by such a row, a row without excess values adds
\* none, and the record of every row (fields, raw, issues) is the record of the
\* row with the excess values removed.
C14_ExtraColumnsFlaggedAndIgnored ==
    (path # "" /\ ~IsNone(matched)) =>
        /\ Len(ExtraColumnIssues(file_issues)) = Len(SelectSeq(DataRowLines(line_num), HasExcess))
        /\ \A j \in 1..Len(file_issues) :
            file_issues[j].code = "row_has_extra_columns" =>
                /\ HasExcess(issueLine[j])
                /\ IsNone(file_issues[j].field)
                /\ \A m \in 1..Len(file_issues) :
                    (file_issues[m].code = "row_has_extra_columns" /\ issueLine[m] = issueLine[j]) => m = j
        /\ Len(records) = Len(RecordRowLines(Completed))
        /\ \A k \in 1..Len(records) :
            Some(records[k]) = _to_row(DictReaderRow(handle[1], WithoutExcess(RecordRowLines(Completed)[k])),
                                       records[k].source_row, path, SchemaNamed(Val(matched))).row

\* A ParseResult with a record made of a row that has an excess value, and
\* with the issue of that row
C14_Witness ==
    /\ pc = "returned"
    /\ ~IsNone(returned)
    /\ \E k \in 1..Len(records) :
        /\ HasExcess(RecordRowLines(Completed)[k])
        /\ ~IsNone(records[k].sku)
    /\ Len(ExtraColumnIssues(file_issues)) = 1
    /\ \E i \in 2..Len(handle) : handle[i] # <<>> /\ ~HasExcess(i)

\* C15 (as stated): in an accepted file, completely empty lines and blank
\* rows included, the source_row of every record is the 1-based number of the
\* line of its row in the file (the header is line 1), source_row is strictly
\* increasing along the records, and the row number quoted in every file-level
\* issue is the number of the line of the row that added it.
C15_SourceRowIsFileLine ==
    (path # "" /\ ~IsNone(matched)) =>
        /\ Len(records) = Len(RecordRowLines(Completed))
        /\ \A k \in 1..Len(records) : records[k].source_row = RecordRowLines(Completed)[k]
        /\ \A k \in 1..(Len(records) - 1) : records[k].source_row < records[k + 1].source_row
        /\ \A j \in 1..Len(file_issues) : file_issues[j].row = issueLine[j]

\* The key the claim gives a row under the strategy k: the function named
\* after k for the four names, the callable itself for a callable
ClaimedKey(k, row) ==
    CASE k = "sku" -> key_by_sku(row)
      [] k = "name" -> key_by_name(row)
      [] k = "sku_warehouse" -> key_by_sku_warehouse(row)
      [] k = "name_warehouse" -> key_by_name_warehouse(row)
      [] k = "custom_name_casefold" -> custom_name_casefold(row)

ClaimedKeys(k, rows) == {Val(ClaimedKey(k, rows[i])) : i \in {j \in 1..Len(rows) : ~Falsy(ClaimedKey(k, rows[j]))}}

\* C16: a call with one of the four names keys the rows with the function of
\* that name, a call with a callable keys them with the callable, and a call
\* with any other name raises the 'Unsupported reconciliation key' ValueError
\* and nothing else happens: no aggregate, summary or duplicate list is
\* computed from the rows, whatever rows were passed.
C16_KeyStrategyResolution ==
    /\ pc = "failed" <=> (key # "" /\ key \notin BuiltinKeys \cup CallableKeys)
    /\ pc = "failed" =>
        /\ raised = "ValueError: Unsupported reconciliation key"
        /\ totals1 = <<>> /\ totals2 = <<>>
        /\ summary = EmptySummary
        /\ dups = <<>>
    /\ pc \in {"reconciled", "duplicates"} => raised = "" /\ key \in BuiltinKeys \cup CallableKeys
    /\ pc = "reconciled" =>
        /\ DOMAIN totals1 = ClaimedKeys(key, rows1)
        /\ DOMAIN totals2 = ClaimedKeys(key, rows2)
    /\ pc = "duplicates" =>
        {dups[i].key : i \in 1..Len(dups)} =
            {k \in ClaimedKeys(key, rows1) :
                Cardinality({i \in 1..Len(rows1) : ClaimedKey(key, rows1[i]) = Some(k)}) > 1}

\* A call with an unknown name on two row lists that are not empty has raised
C16_Witness ==
    /\ pc = "failed"
    /\ key \in UnknownKeys
    /\ rows1 # <<>>
    /\ rows2 # <<>>
    /\ raised = "ValueError: Unsupported reconciliation key"

SummaryEntries == {"in_both_unchanged", "in_both_changed", "only_in_snapshot_1", "only_in_snapshot_2", "delta_by_key"}

\* C17: a call of reconcile_rows or detect_merged_duplicates with one of the
\* four names or a callable does not raise, whatever the two row lists are
\* (empty, with rows whose keys are all None, with no key in common).  The
\* summary of reconcile_rows has its five entries, and an entry is the empty
\* list (the empty mapping for delta_by_key) when no key falls in its
\* category: none of the entries about keys in both snapshots has a key when
\* the snapshots share none, and only_in_snapshot_n has none when snapshot n
\* has no key of its own.  detect_merged_duplicates returns a list, empty when
\* no key has two rows.
C17_ResolvableKeyNeverFails ==
    (key \in BuiltinKeys \cup CallableKeys /\ pc \in {"reconciled", "duplicates", "failed"}) =>
        /\ pc # "failed"
        /\ raised = ""
        /\ pc = "reconciled" =>
            /\ DOMAIN summary = SummaryEntries
            /\ \A e \in SummaryEntries \ {"delta_by_key"} : DOMAIN summary[e] = 1..Len(summary[e])
            /\ ClaimedKeys(key, rows1) \cap ClaimedKeys(key, rows2) = {} =>
                /\ summary.in_both_unchanged = <<>>
                /\ summary.in_both_changed = <<>>
                /\ summary.delta_by_key = <<>>
            /\ ClaimedKeys(key, rows1) \ ClaimedKeys(key, rows2) = {} => summary.only_in_snapshot_1 = <<>>
            /\ ClaimedKeys(key, rows2) \ ClaimedKeys(key, rows1) = {} => summary.only_in_snapshot_2 = <<>>
            /\ ClaimedKeys(key, rows1) \ ClaimedKeys(key, rows2) # {} => summary.only_in_snapshot_1 # <<>>
            /\ ClaimedKeys(key, rows2) \ ClaimedKeys(key, rows1) # {} => summary.only_in_snapshot_2 # <<>>
        /\ pc = "duplicates" =>
            /\ DOMAIN dups = 1..Len(dups)
            /\ (\A i, j \in 1..Len(rows1) :
                    (ClaimedKey(key, rows1[i]) = ClaimedKey(key, rows1[j]) /\ i # j) => Falsy(ClaimedKey(key, rows1[i])))
                => dups = <<>>

\* reconcile_rows has returned for a first list whose rows all have the key
\* None and an empty second list: every entry of the summary is empty
C17_Witness ==
    /\ pc = "reconciled"
    /\ Len(rows1) = MaxRows
    /\ \A i \in 1..Len(rows1) : IsNone(ClaimedKey(key, rows1[i]))
    /\ rows2 = <<>>
    /\ summary = [in_both_unchanged |-> <<>>, in_both_changed |-> <<>>, only_in_snapshot_1 |-> <<>>, only_in_snapshot_2 |-> <<>>, delta_by_key |-> <<>>]

\* parse_quantity has been called on a text that is not blank
QuantityCallDone ==
    /\ NormCallDone
    /\ normCall.fn = "parse_quantity"
    /\ ~IsNone(normCall.value)
    /\ Strip(Val(normCall.value)) # <<>>

\* The issues parse_quantity adds of its own, after those of normalize_text
\* (whitespace_trimmed)
QuantityCodes == {"invalid_quantity", "non_integral_quantity", "decimal_quantity_format", "negative_quantity"}
QuantityIssues(issues) == SelectSeq(issues, LAMBDA issue : issue.code \in QuantityCodes)

\* The issues of the whole number n written as text
WholeNumberIssues(text, n) ==
    {DataIssue("decimal_quantity_format", "quantity") : c \in {i \in 1..Len(text) : text[i] = 46}}
    \cup {DataIssue("negative_quantity", "quantity") : c \in {i \in {1} : n < 0}}

\* C18 (as stated): parse_quantity gives every non-blank text exactly one of
\* the three outcomes.  A text that is not a number (here: not a finite
\* decimal number, in any notation Decimal reads) gives None with
\* invalid_quantity; a number with a non-zero fractional part gives None with
\* non_integral_quantity; a whole number gives its integer, whatever its
\* size, with decimal_quantity_format exactly when the text has a decimal
\* point and negative_quantity exactly when the integer is below zero; and
\* parse_quantity adds no other issue of its own.
C18_QuantityClassification ==
    QuantityCallDone =>
        \E text \in {Strip(Val(normCall.value))} : \E parsed \in {Decimal(Strip(Val(normCall.value)))} :
            /\ normResult.exc = ""
            /\ parsed.kind # "finite" =>
                /\ normResult.value = None
                /\ QuantityIssues(normResult.issues) = <<DataIssue("invalid_quantity", "quantity")>>
            /\ (parsed.kind = "finite" /\ ~IsIntegral(parsed)) =>
                /\ normResult.value = None
                /\ QuantityIssues(normResult.issues) = <<DataIssue("non_integral_quantity", "quantity")>>
            /\ (parsed.kind = "finite" /\ IsIntegral(parsed)) =>
                /\ normResult.value = Some(IntOf(parsed))
                /\ Range(QuantityIssues(normResult.issues)) = WholeNumberIssues(text, IntOf(parsed))
                /\ Len(QuantityIssues(normResult.issues)) = Cardinality(WholeNumberIssues(text, IntOf(parsed)))

SkuCallDone == NormCallDone /\ normCall.fn = "normalize_sku"

\* The candidate of the claim: the text trimmed, in capitals, without whitespace
SkuCandidate(text) == RemoveWhitespace(Upper(Strip(text)))

\* 'SKU-' plus exactly 3 digits, 'SKU' plus exactly 3 digits
IsSkuHyphenDigits(c) == Len(c) = 7 /\ SubSeq(c, 1, 4) = <<83, 75, 85, 45>> /\ \A i \in 5..7 : c[i] \in 48..57
IsSkuDigits(c) == Len(c) = 6 /\ SubSeq(c, 1, 3) = <<83, 75, 85>> /\ \A i \in 4..6 : c[i] \in 48..57

\* The format issues of normalize_sku, beside those of normalize_text
SkuFormatIssues(issues) == SelectSeq(issues, LAMBDA issue : issue.code \in {"sku_format_normalized", "invalid_sku_format"})

\* C19: normalize_sku of None or of a blank text returns None with
\* missing_value and no other issue.  For any other text, with the candidate
\* its trimmed text in capitals and without whitespace: a candidate 'SKU-' plus
\* 3 digits is returned, with sku_format_normalized exactly when it differs
\* from the trimmed text; a candidate 'SKU' plus 3 digits is returned with the
\* hyphen inserted and with sku_format_normalized; any other candidate is
\* returned as it is, never None, with invalid_sku_format; and there is no
\* other format issue and no missing_value.
C19_SkuNormalization ==
    SkuCallDone =>
        /\ normResult.exc = ""
        /\ (IsNone(normCall.value) \/ Strip(Val(normCall.value)) = <<>>) =>
            normResult = Returned(None, <<DataIssue("missing_value", "sku")>>)
        /\ (~IsNone(normCall.value) /\ Strip(Val(normCall.value)) # <<>>) =>
            \E trimmed \in {Strip(Val(normCall.value))} : \E candidate \in {SkuCandidate(Val(normCall.value))} :
                /\ \A i \in 1..Len(normResult.issues) : normResult.issues[i].code # "missing_value"
                /\ IsSkuHyphenDigits(candidate) =>
                    /\ normResult.value = Some(candidate)
                    /\ SkuFormatIssues(normResult.issues) =
                        IF candidate # trimmed THEN <<DataIssue("sku_format_normalized", "sku")>> ELSE <<>>
                /\ IsSkuDigits(candidate) =>
                    /\ normResult.value = Some(<<83, 75, 85, 45>> \o SubSeq(candidate, 4, 6))
                    /\ SkuFormatIssues(normResult.issues) = <<DataIssue("sku_format_normalized", "sku")>>
                /\ (~IsSkuHyphenDigits(candidate) /\ ~IsSkuDigits(candidate)) =>
                    /\ normResult.value = Some(candidate)
                    /\ candidate # <<>>
                    /\ SkuFormatIssues(normResult.issues) = <<DataIssue("invalid_sku_format", "sku")>>

\* normalize_sku of a padded, mixed-case text without hyphen has returned
\* SKU-001
C19_Witness ==
    /\ SkuCallDone
    /\ ~IsNone(normCall.value)
    /\ Strip(Val(normCall.value)) # Val(normCall.value)
    /\ Upper(Val(normCall.value)) # Val(normCall.value)
    /\ IsSkuDigits(SkuCandidate(Val(normCall.value)))
    /\ normResult.value = Some(<<83, 75, 85, 45, 48, 48, 49>>)

\* parse_inventory_date has been called on a text that is not blank
DateCallDone ==
    /\ NormCallDone
    /\ normCall.fn = "parse_inventory_date"
    /\ ~IsNone(normCall.value)
    /\ Strip(Val(normCall.value)) # <<>>

\* The characters of text at the positions ps are digits, and their number
DigitsAt(text, ps) == \A i \in 1..Len(ps) : text[ps[i]] \in 48..57
NumberAt(text, ps) == DigitsValue([i \in 1..Len(ps) |-> text[ps[i]]])

\* A text valid as YYYY-MM-DD: four, two and two digits with "-" between
\* them, naming a day of the calendar
ValidIso(text) ==
    /\ Len(text) = 10
    /\ text[5] = 45 /\ text[8] = 45
    /\ DigitsAt(text, <<1, 2, 3, 4, 6, 7, 9, 10>>)
    /\ IsDate(NumberAt(text, <<1, 2, 3, 4>>), NumberAt(text, <<6, 7>>), NumberAt(text, <<9, 10>>))

IsoDate(text) == Date(NumberAt(text, <<1, 2, 3, 4>>), NumberAt(text, <<6, 7>>), NumberAt(text, <<9, 10>>))

\* A text valid as MM/DD/YYYY
ValidLegacy(text) ==
    /\ Len(text) = 10
    /\ text[3] = 47 /\ text[6] = 47
    /\ DigitsAt(text, <<1, 2, 4, 5, 7, 8, 9, 10>>)
    /\ IsDate(NumberAt(text, <<7, 8, 9, 10>>), NumberAt(text, <<1, 2>>), NumberAt(text, <<4, 5>>))

LegacyDate(text) == Date(NumberAt(text, <<7, 8, 9, 10>>), NumberAt(text, <<1, 2>>), NumberAt(text, <<4, 5>>))

\* The issues parse_inventory_date adds of its own
DateFormatIssues(issues) == SelectSeq(issues, LAMBDA issue : issue.code \in {"non_iso_date_format", "invalid_date"})

\* C20 (as stated): for a non-blank text, parse_inventory_date returns the
\* date with no format issue when the text is valid as YYYY-MM-DD, the date
\* with exactly one non_iso_date_format issue when it is valid only as
\* MM/DD/YYYY, and None with exactly one invalid_date issue when it is valid
\* as neither; invalid_date and non_iso_date_format never come together, and
\* no date comes with invalid_date.
C20_DateClassification ==
    DateCallDone =>
        \E text \in {Strip(Val(normCall.value))} :
            /\ normResult.exc = ""
            /\ ValidIso(text) =>
                /\ normResult.value = Some(IsoDate(text))
                /\ DateFormatIssues(normResult.issues) = <<>>
            /\ (~ValidIso(text) /\ ValidLegacy(text)) =>
                /\ normResult.value = Some(LegacyDate(text))
                /\ DateFormatIssues(normResult.issues) = <<DataIssue("non_iso_date_format", "counted_on")>>
            /\ (~ValidIso(text) /\ ~ValidLegacy(text)) =>
                /\ normResult.value = None
                /\ DateFormatIssues(normResult.issues) = <<DataIssue("invalid_date", "counted_on")>>
            /\ Len(DateFormatIssues(normResult.issues)) <= 1
            /\ ~IsNone(normResult.value) =>
                \A i \in 1..Len(normResult.issues) : normResult.issues[i].code # "invalid_date"

TextCallDone == NormCallDone /\ normCall.fn = "normalize_text"

\* The text without the whitespace before its first and after its last
\* character that is not whitespace; the empty text when it has no such
\* character
Ink(text) == {i \in 1..Len(text) : ~IsSpace(text[i])}
Trimmed(text) ==
    IF Ink(text) = {} THEN <<>>
    ELSE SubSeq(text, CHOOSE i \in Ink(text) : \A j \in Ink(text) : i <= j,
                      CHOOSE i \in Ink(text) : \A j \in Ink(text) : i >= j)

\* C21: normalize_text(value, field) returns (None, [missing_value]) when the
\* value is None or empty after trimming, (trimmed value, [whitespace_trimmed])
\* when the trimmed value is not empty and differs from the value, and
\* (value, []) otherwise; every issue carries the field it was given, and
\* there is never more than one issue.
C21_NormalizeTextOutcomes ==
    TextCallDone =>
        /\ normResult.exc = ""
        /\ Len(normResult.issues) <= 1
        /\ \A i \in 1..Len(normResult.issues) : normResult.issues[i].field = Some(normCall.field)
        /\ IF IsNone(normCall.value) \/ Trimmed(Val(normCall.value)) = <<>>
           THEN normResult = Returned(None, <<DataIssue("missing_value", normCall.field)>>)
           ELSE IF Trimmed(Val(normCall.value)) # Val(normCall.value)
           THEN normResult = Returned(Some(Trimmed(Val(normCall.value))),
                                      <<DataIssue("whitespace_trimmed", normCall.field)>>)
           ELSE normResult = Returned(normCall.value, <<>>)

\* normalize_text has trimmed a location with whitespace at its end
C21_Witness ==
    /\ TextCallDone
    /\ normCall.field = "location"
    /\ ~IsNone(normCall.value)
    /\ Len(Val(normCall.value)) = MaxLen
    /\ IsSpace(Val(normCall.value)[MaxLen])
    /\ ~IsSpace(Val(normCall.value)[1])
    /\ normResult.issues = <<DataIssue("whitespace_trimmed", "location")>>
    /\ normResult.value = Some(Trimmed(Val(normCall.value)))

\* C22: normalize_text is idempotent on its output: when it has returned a
\* text v for a text x and is given v again (for the same field), it returns
\* (v, []), v unchanged and with no issue.
C22_NormalizeTextIdempotent ==
    pc = "again" =>
        /\ normCall.value = normalize_text(normCall.input, normCall.field).value
        /\ ~IsNone(normCall.value)
        /\ normResult = Returned(normCall.value, <<>>)

\* The first call trimmed whitespace from both ends of its input, and the
\* second call has returned
C22_Witness ==
    /\ pc = "again"
    /\ Len(Val(normCall.input)) = MaxLen
    /\ IsSpace(Val(normCall.input)[1])
    /\ IsSpace(Val(normCall.input)[MaxLen])
    /\ Len(Val(normCall.value)) = MaxLen - 2
    /\ normResult.exc = ""

----------------------------------------------------------------------------
\* SpecKeys: two records, built by the parser or by a caller, are keyed with a
\* built-in strategy and handed to the engine, in one row list or one in each

KeySkus == {None, Some(<<65>>), Some(<<65, 124, 49>>)}                       \* "A", "A|1"
KeyNames == {None, Some(<<65, 98>>), Some(<<32, 97, 66, 32>>), Some(<<32>>)}   \* "Ab", " aB ", " "
KeyLocations == {None, Some(<<99>>), Some(<<49, 124, 99>>), Some(<<32, 67, 32>>), Some(<<32>>)}   \* "c", "1|c", " C ", " "
KeyRowPool(quantity) == {Row(sku, name, Some(quantity), location) : sku \in KeySkus, name \in KeyNames, location \in KeyLocations}

InitKeys ==
    /\ \E a \in KeyRowPool(3), b \in KeyRowPool(4) :
        \/ rows1 = <<a, b>> /\ rows2 = <<>>
        \/ rows1 = <<a>> /\ rows2 = <<b>>
    /\ pc = "build"
    /\ key = ""
    /\ totals1 = <<>>
    /\ totals2 = <<>>
    /\ summary = EmptySummary
    /\ dups = <<>>
    /\ raised = ""
    /\ keyed = <<>>
    /\ ConcIdle
    /\ NormIdle
    /\ SchemaIdle
    /\ ParseIdle

\* key_fn(row) for every row of the two lists, with the function of the name k
KeyRows(k) ==
    /\ pc = "build"
    /\ pc' = "keyed"
    /\ key' = k
    /\ keyed' = [i \in 1..Len(rows1 \o rows2) |-> ApplyKeyFn(resolve_key_fn(k).fn, (rows1 \o rows2)[i])]
    /\ UNCHANGED <<rows1, rows2, totals1, totals2, summary, dups, raised>>
    /\ UNCHANGED <<normVars, schemaVars, parseVars, calls, frames>>

NextKeys ==
    \/ \E k \in BuiltinKeys : KeyRows(k)
    \/ \E k \in BuiltinKeys : ReconcileRows(k)
    \/ \E k \in BuiltinKeys : DetectMergedDuplicates(k)

SpecKeys == InitKeys /\ [][NextKeys]_vars

\* A text trimmed and case-folded, as the claims say it
Folded(text) == CaseFold(Trimmed(text))

\* The name side of a key: the name trimmed and case-folded, None when the
\* name is absent or empty after folding
NameSide(row) == IF IsNone(row.name) \/ Folded(Val(row.name)) = <<>> THEN None ELSE Some(Folded(Val(row.name)))

\* The location side as the claim states it: None only when the location is None
LocationSideAsStated(row) == IF IsNone(row.location) THEN None ELSE Some(Folded(Val(row.location)))

\* The location side: None also when the location is empty after trimming
LocationSide(row) == IF IsNone(row.location) \/ Folded(Val(row.location)) = <<>> THEN None ELSE Some(Folded(Val(row.location)))

Joined(left, right) == IF IsNone(left) \/ IsNone(right) THEN None ELSE Some(Val(left) \o <<124>> \o Val(right))

KeyedRows == rows1 \o rows2

\* Records whose names, and locations, differ only in case or surrounding
\* whitespace get the same name key, and name_warehouse key
SameNameSameKey ==
    \A i, j \in 1..Len(keyed) :
        /\ (key = "name" /\ ~IsNone(KeyedRows[i].name) /\ ~IsNone(KeyedRows[j].name)
            /\ Folded(Val(KeyedRows[i].name)) = Folded(Val(KeyedRows[j].name))) => keyed[i] = keyed[j]
        /\ (key = "name_warehouse" /\ ~IsNone(KeyedRows[i].name) /\ ~IsNone(KeyedRows[j].name)
            /\ ~IsNone(KeyedRows[i].location) /\ ~IsNone(KeyedRows[j].location)
            /\ Folded(Val(KeyedRows[i].name)) = Folded(Val(KeyedRows[j].name))
            /\ Folded(Val(KeyedRows[i].location)) = Folded(Val(KeyedRows[j].location))) => keyed[i] = keyed[j]

\* C23 (as stated): key_by_sku gives the record's sku, or None; key_by_name
\* the name trimmed and case-folded, or None when it is absent or empty after
\* folding; key_by_sku_warehouse gives 'sku|location' with the location
\* trimmed and case-folded and key_by_name_warehouse 'name|location' with both
\* sides so, each None only if a side is None; records whose names and
\* locations differ only in case or surrounding whitespace get the same key.
C23_KeysAsStated ==
    pc = "keyed" =>
        /\ \A i \in 1..Len(keyed) :
            /\ key = "sku" => keyed[i] = KeyedRows[i].sku
            /\ key = "name" => keyed[i] = NameSide(KeyedRows[i])
            /\ key = "sku_warehouse" => keyed[i] = Joined(KeyedRows[i].sku, LocationSideAsStated(KeyedRows[i]))
            /\ key = "name_warehouse" => keyed[i] = Joined(NameSide(KeyedRows[i]), LocationSideAsStated(KeyedRows[i]))
        /\ SameNameSameKey

\* C23 (amended): the same, where the location side of the two warehouse keys
\* is None when the location is absent or empty after trimming, so that a
\* record with a blank location has no sku_warehouse and no name_warehouse key.
C23_BuiltinKeys ==
    pc = "keyed" =>
        /\ \A i \in 1..Len(keyed) :
            /\ key = "sku" => keyed[i] = KeyedRows[i].sku
            /\ key = "name" => keyed[i] = NameSide(KeyedRows[i])
            /\ key = "sku_warehouse" => keyed[i] = Joined(KeyedRows[i].sku, LocationSide(KeyedRows[i]))
            /\ key = "name_warehouse" => keyed[i] = Joined(NameSide(KeyedRows[i]), LocationSide(KeyedRows[i]))
        /\ SameNameSameKey

\* Two records, one with a blank location and no warehouse key, the other
\* with a padded capital location and a lower-case one in its key
C23_Witness ==
    /\ pc = "keyed"
    /\ key = "sku_warehouse"
    /\ KeyedRows[1].location = Some(<<32>>)
    /\ ~IsNone(KeyedRows[1].sku)
    /\ keyed[1] = None
    /\ KeyedRows[2].location = Some(<<32, 67, 32>>)
    /\ keyed[2] = Some(<<65, 124, 99>>)

\* The two records have locations, and the locations differ after trimming
\* and case-folding
DistinctWarehouses ==
    /\ Len(KeyedRows) = 2
    /\ ~IsNone(KeyedRows[1].location) /\ ~IsNone(KeyedRows[2].location)
    /\ Folded(Val(KeyedRows[1].location)) # Folded(Val(KeyedRows[2].location))

\* C24 (as stated): under the sku_warehouse strategy two records whose
\* locations differ after trimming and case-folding never get the same key,
\* whatever their skus are, and so their quantities are never summed into one
\* total: aggregate_quantities keeps them under two keys, reconcile_rows never
\* compares one with the other as the same item, and detect_merged_duplicates
\* reports no merge of them.
C24_WarehousesNeverMerged ==
    (DistinctWarehouses /\ key = "sku_warehouse") =>
        /\ pc = "keyed" => (keyed[1] # keyed[2] \/ IsNone(keyed[1]))
        /\ pc = "reconciled" =>
            /\ \A k \in DOMAIN totals1 : totals1[k] \in {3, 4}
            /\ \A k \in DOMAIN totals2 : totals2[k] \in {3, 4}
            /\ DOMAIN totals1 \cap DOMAIN totals2 = {}
            /\ summary.in_both_changed = <<>>
        /\ pc = "duplicates" => dups = <<>>

----------------------------------------------------------------------------
\* SpecConc: two calls of the engine run interleaved over the same row lists.
\* A step of a call is one statement of its function (one round of a loop);
\* between two steps of a call the other call may take any number of its own.

Threads == {1, 2}

ConcOps == {"reconcile_rows", "detect_merged_duplicates"}
ConcKeys == {"sku", "name_warehouse", "category"}

ConcRows ==
    { Row(Some(TxtSku001), Some(TxtAb), Some(10), Some(TxtW1)),
      Row(Some(TxtSku001), Some(TxtAbPadded), Some(5), Some(TxtW1Lower)),
      Row(None, Some(TxtCd), None, Some(TxtW2)) }

ConcRowLists == {<<>>} \cup [1..MaxRows -> ConcRows]

\* The locals of a call that hold what it accumulates
EmptyFrame == [snapshot_1_totals |-> <<>>, snapshot_2_totals |-> <<>>, row_counts |-> <<>>, merged_totals |-> <<>>]

NewCall(op, k) == [op |-> op, key |-> k, at |-> "start", fn |-> "", i |-> 0, result |-> <<>>, exc |-> ""]

\* A frame shared by all calls, as if the accumulators were module-level
FrameOf_Shared(t) == 1

\* The frame a call accumulates into: its own
FrameOf(t) == t

InitConc ==
    /\ rows1 \in ConcRowLists
    /\ rows2 \in {<<>>, <<Row(Some(TxtSku001), Some(TxtAb), Some(4), Some(TxtW1)), Row(Some(TxtSku002), Some(TxtCd), Some(1), Some(TxtW2))>>}
    /\ calls \in [Threads -> {NewCall(op, k) : op \in ConcOps, k \in ConcKeys}]
    /\ frames = [t \in Threads |-> EmptyFrame]
    /\ pc = "run"
    /\ key = ""
    /\ totals1 = <<>>
    /\ totals2 = <<>>
    /\ summary = EmptySummary
    /\ dups = <<>>
    /\ raised = ""
    /\ keyed = <<>>
    /\ NormIdle
    /\ SchemaIdle
    /\ ParseIdle

ConcFrame == <<rows1, rows2, pc, key, totals1, totals2, summary, dups, raised, keyed, normVars, schemaVars, parseVars>>

\* key_fn = resolve_key_fn(key), and the call of aggregate_quantities on the
\* first list (reconcile_rows) or the two defaultdicts (detect_merged_duplicates)
Resolve(t) ==
    /\ calls[t].at = "start"
    /\ \E r \in {resolve_key_fn(calls[t].key)} :
        IF r.exc # ""
        THEN /\ calls' = [calls EXCEPT ![t].at = "raised", ![t].exc = r.exc]
             /\ UNCHANGED frames
        ELSE /\ calls' = [calls EXCEPT ![t].fn = r.fn, ![t].i = 1,
                                       ![t].at = IF calls[t].op = "reconcile_rows" THEN "totals1" ELSE "counts"]
             /\ frames' = [frames EXCEPT ![FrameOf(t)] =
                              IF calls[t].op = "reconcile_rows"
                              THEN [@ EXCEPT !.snapshot_1_totals = <<>>]
                              ELSE [@ EXCEPT !.row_counts = <<>>, !.merged_totals = <<>>]]
    /\ UNCHANGED ConcFrame

\* One round of the loop of aggregate_quantities
AggregateRow(t) ==
    /\ calls[t].at \in {"totals1", "totals2"}
    /\ \E rows \in {IF calls[t].at = "totals1" THEN rows1 ELSE rows2} :
        /\ calls[t].i <= Len(rows)
        /\ \E k \in {ApplyKeyFn(calls[t].fn, rows[calls[t].i])} :
           \E quantity \in {IF IsNone(rows[calls[t].i].quantity) THEN 0 ELSE Val(rows[calls[t].i].quantity)} :
            frames' = IF Falsy(k) THEN frames
                      ELSE IF calls[t].at = "totals1"
                      THEN [frames EXCEPT ![FrameOf(t)].snapshot_1_totals = AddTo(@, Val(k), quantity)]
                      ELSE [frames EXCEPT ![FrameOf(t)].snapshot_2_totals = AddTo(@, Val(k), quantity)]
    /\ calls' = [calls EXCEPT ![t].i = @ + 1]
    /\ UNCHANGED ConcFrame

\* aggregate_quantities returns: reconcile_rows calls it on the second list,
\* or goes on to the summary
AggregateReturn(t) ==
    /\ \/ /\ calls[t].at = "totals1"
          /\ calls[t].i > Len(rows1)
          /\ calls' = [calls EXCEPT ![t].at = "totals2", ![t].i = 1]
          /\ frames' = [frames EXCEPT ![FrameOf(t)].snapshot_2_totals = <<>>]
       \/ /\ calls[t].at = "totals2"
          /\ calls[t].i > Len(rows2)
          /\ calls' = [calls EXCEPT ![t].at = "summary"]
          /\ UNCHANGED frames
    /\ UNCHANGED ConcFrame

\* The rest of reconcile_rows: the summary of the two totals
BuildSummary(t) ==
    /\ calls[t].at = "summary"
    /\ calls' = [calls EXCEPT ![t].at = "returned",
                              ![t].result = SummaryOf(frames[FrameOf(t)].snapshot_1_totals,
                                                      frames[FrameOf(t)].snapshot_2_totals)]
    /\ UNCHANGED frames
    /\ UNCHANGED ConcFrame

\* One round of the counting loop of detect_merged_duplicates
CountRow(t) ==
    /\ calls[t].at = "counts"
    /\ calls[t].i <= Len(rows1)
    /\ \E item_key \in {ApplyKeyFn(calls[t].fn, rows1[calls[t].i])} :
       \E quantity \in {IF IsNone(rows1[calls[t].i].quantity) THEN 0 ELSE Val(rows1[calls[t].i].quantity)} :
        frames' = IF Falsy(item_key) THEN frames
                  ELSE [frames EXCEPT ![FrameOf(t)].row_counts = AddTo(@, Val(item_key), 1),
                                      ![FrameOf(t)].merged_totals = AddTo(@, Val(item_key), quantity)]
    /\ calls' = [calls EXCEPT ![t].i = @ + 1]
    /\ UNCHANGED ConcFrame

\* The second loop of detect_merged_duplicates: the keys with several rows
DuplicateList(row_counts, merged_totals) ==
    LET keys == Sorted({k \in DOMAIN row_counts : ~(row_counts[k] <= 1)})
    IN  [i \in 1..Len(keys) |->
            [key |-> keys[i], row_count |-> row_counts[keys[i]], merged_quantity |-> merged_totals[keys[i]]]]

BuildDuplicates(t) ==
    /\ calls[t].at = "counts"
    /\ calls[t].i > Len(rows1)
    /\ calls' = [calls EXCEPT ![t].at = "returned",
                              ![t].result = DuplicateList(frames[FrameOf(t)].row_counts,
                                                          frames[FrameOf(t)].merged_totals)]
    /\ UNCHANGED frames
    /\ UNCHANGED ConcFrame

NextConc ==
    \E t \in Threads :
        \/ Resolve(t)
        \/ AggregateRow(t)
        \/ AggregateReturn(t)
        \/ BuildSummary(t)
        \/ CountRow(t)
        \/ BuildDuplicates(t)

SpecConc == InitConc /\ [][NextConc]_vars

\* What the call of thread t returns, or raises, when it runs alone
Alone(t) ==
    IF calls[t].op = "reconcile_rows"
    THEN reconcile_rows(rows1, rows2, calls[t].key)
    ELSE detect_merged_duplicates(rows1, calls[t].key)

\* C25: when two calls of reconcile_rows / detect_merged_duplicates, with the
\* same or different key strategies, run interleaved over the same row lists,
\* each call that returns returns exactly what it returns when run alone, and
\* each call that raises raises what it raises when run alone.
C25_InterleavedCallsAsAlone ==
    pc = "run" =>
        \A t \in Threads :
            /\ calls[t].at = "returned" => (Alone(t).exc = "" /\ calls[t].result = Alone(t).value)
            /\ calls[t].at = "raised" => (Alone(t).exc # "" /\ calls[t].exc = Alone(t).exc)

\* A reconcile_rows by sku has returned a summary with a changed key while a
\* detect_merged_duplicates by name_warehouse is
\* in the middle of its counting loop
C25_Witness ==
    /\ pc = "run"
    /\ calls[1].op = "reconcile_rows" /\ calls[1].key = "sku"
    /\ calls[1].at = "returned"
    /\ calls[1].result.in_both_changed # <<>>
    /\ calls[2].op = "detect_merged_duplicates" /\ calls[2].key = "name_warehouse"
    /\ calls[2].at = "counts"
    /\ calls[2].i = 2
    /\ frames[2].row_counts # <<>>
    /\ frames[1].snapshot_1_totals # <<>>

----------------------------------------------------------------------------
\* SpecFrame: parse_snapshot or parse_both_snapshots returns its result, and
\* the caller hands the result, or its row lists, to the engine several times

reconcile_combined_result(combined_result, k) == reconcile_rows(combined_result.snapshot_1.rows, combined_result.snapshot_2.rows, k)

IsCombined(result) == "snapshot_1" \in DOMAIN result

\* The row lists a caller takes from a parse result
FirstRows(result) == IF IsCombined(result) THEN result.snapshot_1.rows ELSE result.rows
SecondRows(result) == IF IsCombined(result) THEN result.snapshot_2.rows ELSE result.rows

EngineOps == {"aggregate_quantities", "reconcile_rows", "reconcile_combined_result", "detect_merged_duplicates"}
FrameKeys == {"sku", "name_warehouse", "category"}

\* The call op(..., key = k) on the parse result: [exc, value]
EngineResult(op, k, result) ==
    CASE op = "aggregate_quantities" -> [exc |-> "", value |-> aggregate_quantities(FirstRows(result), resolve_key_fn(k).fn)]
      [] op = "reconcile_rows" -> reconcile_rows(FirstRows(result), SecondRows(result), k)
      [] op = "reconcile_combined_result" -> reconcile_combined_result(result, k)
      [] op = "detect_merged_duplicates" -> detect_merged_duplicates(FirstRows(result), k)

InitFrame ==
    /\ \/ /\ call = "parse_snapshot"
          /\ pending \in {<<File("snapshot_1.csv", f)>> : f \in PairFiles}
       \/ /\ call = "parse_both_snapshots"
          /\ pending \in {<<File("snapshot_1.csv", f1), File("snapshot_2.csv", f2)>> :
                            f1 \in PairFiles, f2 \in PairFiles}
    /\ NotOpen
    /\ results = <<>>
    /\ returned = None
    /\ parseRaised = NoException
    /\ pc = "open"
    /\ rows1 = <<>>
    /\ rows2 = <<>>
    /\ key = ""
    /\ totals1 = <<>>
    /\ totals2 = <<>>
    /\ summary = EmptySummary
    /\ dups = <<>>
    /\ raised = ""
    /\ NormIdle
    /\ SchemaIdle
    /\ EngineIdle

\* A call that takes the rows out of the list it is given while it reads them
EngineCall_DrainsRows(op, k) ==
    /\ pc = "returned"
    /\ Len(calls) < MaxCalls
    /\ op = "reconcile_combined_result" => IsCombined(Val(returned))
    /\ op = "aggregate_quantities" => k \in BuiltinKeys
    /\ \E res \in {EngineResult(op, k, Val(returned))} :
        calls' = Append(calls, [op |-> op, key |-> k, result |-> res.value, exc |-> res.exc])
    /\ returned' = IF IsCombined(Val(returned))
                   THEN Some([Val(returned) EXCEPT !.snapshot_1.rows = <<>>])
                   ELSE Some([Val(returned) EXCEPT !.rows = <<>>])
    /\ UNCHANGED <<reconVars, normVars, schemaVars, keyed, frames>>
    /\ UNCHANGED <<fileVars, records, file_issues, rowLine, issueLine, results, parseRaised>>

\* One call of the engine on what the parser returned; the engine has no
\* statement that assigns to its arguments or to anything reachable from them
EngineCall(op, k) ==
    /\ pc = "returned"
    /\ Len(calls) < MaxCalls
    /\ op = "reconcile_combined_result" => IsCombined(Val(returned))
    /\ op = "aggregate_quantities" => k \in BuiltinKeys
    /\ \E res \in {EngineResult(op, k, Val(returned))} :
        calls' = Append(calls, [op |-> op, key |-> k, result |-> res.value, exc |-> res.exc])
    /\ UNCHANGED <<reconVars, normVars, schemaVars, keyed, frames>>
    /\ UNCHANGED <<fileVars, records, file_issues, rowLine, issueLine, results, returned, parseRaised>>

NextFrame ==
    \/ OpenSnapshot
    \/ ParseRow
    \/ ReturnResult
    \/ \E op \in EngineOps, k \in FrameKeys : EngineCall(op, k)

SpecFrame == InitFrame /\ [][NextFrame]_vars

\* What the parser built, as it stood when the parser returned it
AsParsed == IF call = "parse_both_snapshots" THEN CombinedParseResult(results[1], results[2]) ELSE results[1]

\* C26: the engine only reads its inputs: after any calls of
\* aggregate_quantities, reconcile_rows, reconcile_combined_result and
\* detect_merged_duplicates the ParseResult / CombinedParseResult, its row
\* lists and every record in them (fields, raw, issues) are as the parser
\* returned them, every call returned what the operation gives on the
\* result as parsed, and two calls of the same operation with the same key
\* returned equal results.
C26_EngineOnlyReads ==
    (pc = "returned" /\ ~IsNone(returned)) =>
        /\ Val(returned) = AsParsed
        /\ \A n \in 1..Len(calls) :
            /\ calls[n].result = EngineResult(calls[n].op, calls[n].key, AsParsed).value
            /\ calls[n].exc = EngineResult(calls[n].op, calls[n].key, AsParsed).exc
        /\ \A m, n \in 1..Len(calls) :
            (calls[m].op = calls[n].op /\ calls[m].key = calls[n].key) =>
                (calls[m].result = calls[n].result /\ calls[m].exc = calls[n].exc)

\* reconcile_combined_result has been called twice with the same key on a
\* CombinedParseResult whose snapshots have records, and has found a key
C26_Witness ==
    /\ pc = "returned"
    /\ ~IsNone(returned)
    /\ IsCombined(Val(returned))
    /\ Val(returned).snapshot_1.rows # <<>>
    /\ Val(returned).snapshot_2.rows # <<>>
    /\ Len(calls) = MaxCalls
    /\ \A n \in 1..Len(calls) : calls[n].op = "reconcile_combined_result" /\ calls[n].key = "sku"
    /\ calls[1].result.only_in_snapshot_1 # <<>>

----------------------------------------------------------------------------
\* SpecSwap: a caller assembles two row lists, reconciles them, and
\* reconciles them again with the snapshots exchanged

\* reconcile_rows(rows2, rows1, key=key) after reconcile_rows(rows1, rows2, key=key)
ReconcileSwapped ==
    /\ pc \in {"reconciled", "failed"}
    /\ \E res \in {reconcile_rows(rows2, rows1, key)} :
        calls' = <<[op |-> "reconcile_rows", key |-> key, result |-> res.value, exc |-> res.exc]>>
    /\ pc' = "swapped"
    /\ UNCHANGED <<rows1, rows2, key, totals1, totals2, summary, dups, raised>>
    /\ UNCHANGED <<normVars, schemaVars, parseVars, keyed, frames>>

NextSwap ==
    \/ \E r \in RowPool : AppendRow1(r)
    \/ \E r \in RowPool : AppendRow2(r)
    \/ \E k \in KeyArgs : ReconcileRows(k)
    \/ ReconcileSwapped

SpecSwap == InitRecon /\ [][NextSwap]_vars

\* C27: swapping the snapshots mirrors the summary: reconcile_rows(B, A)
\* fails as reconcile_rows(A, B) does and otherwise has the same
\* in_both_unchanged list, only_in_snapshot_1 and only_in_snapshot_2
\* exchanged, the same changed keys in the same order with
\* snapshot_1_quantity and snapshot_2_quantity exchanged, and every delta
\* negated, in in_both_changed and in delta_by_key.
C27_SwapMirrorsSummary ==
    pc = "swapped" =>
        LET forward == summary
            backward == calls[1].result
        IN  /\ calls[1].exc = raised
            /\ backward.in_both_unchanged = forward.in_both_unchanged
            /\ backward.only_in_snapshot_1 = forward.only_in_snapshot_2
            /\ backward.only_in_snapshot_2 = forward.only_in_snapshot_1
            /\ Len(backward.in_both_changed) = Len(forward.in_both_changed)
            /\ \A i \in 1..Len(forward.in_both_changed) :
                /\ backward.in_both_changed[i].key = forward.in_both_changed[i].key
                /\ backward.in_both_changed[i].snapshot_1_quantity = forward.in_both_changed[i].snapshot_2_quantity
                /\ backward.in_both_changed[i].snapshot_2_quantity = forward.in_both_changed[i].snapshot_1_quantity
                /\ backward.in_both_changed[i].delta = 0 - forward.in_both_changed[i].delta
            /\ DOMAIN backward.delta_by_key = DOMAIN forward.delta_by_key
            /\ \A k \in DOMAIN forward.delta_by_key :
                backward.delta_by_key[k] = 0 - forward.delta_by_key[k]

\* Both calls are made on lists with a key whose quantity went down, a key
\* of the first list only and a key of the second list only
C27_Witness ==
    /\ pc = "swapped"
    /\ raised = ""
    /\ summary.only_in_snapshot_1 # <<>>
    /\ summary.only_in_snapshot_2 # <<>>
    /\ \E i \in 1..Len(summary.in_both_changed) : summary.in_both_changed[i].delta < 0

----------------------------------------------------------------------------
\* The column count of an accepted header row

\* The headers of the schema detect_schema returned
DetectedFields == IF detected.schema = Some("snapshot_v1") THEN V1Fields ELSE V2Fields

\* The positions of the header list whose trimmed, lower-cased text is field
Occurrences(hs, field) == {i \in 1..Len(hs) : ~IsNone(hs[i]) /\ Lower(Strip(Val(hs[i]))) = field}

\* C28: whenever detect_schema returns a schema, the header list has exactly
\* five entries, each entry is a text (none absent), and each of the schema's
\* five headers occurs exactly once among the normalized entries.
C28_AcceptedHeaderRowHasFiveColumns ==
    (pc = "detected" /\ ~IsNone(detected.schema)) =>
        /\ Len(Val(headers)) = 5
        /\ \A i \in 1..Len(Val(headers)) : ~IsNone(Val(headers)[i])
        /\ \A field \in DetectedFields : Cardinality(Occurrences(Val(headers), field)) = 1

====
